---- MODULE Spec2Model ----
(***************************************************************************)
(* Model of the claw-recall session indexer (index.py, setup_db.py).       *)
(*                                                                         *)
(* A text is a sequence of tokens; every token stands for a run of         *)
(* characters of a fixed width, so that character counts (and the          *)
(* MIN_CONTENT_LENGTH threshold of 20) keep their real values:             *)
(*   "a"   one non-blank character                                         *)
(*   "_"   one whitespace character                                        *)
(*   "w19" a word of 19 non-blank characters                               *)
(*   "<"   an opening system tag   <system-reminder>   (17 characters)     *)
(*   ">"   a closing system tag    </system-reminder>  (18 characters)     *)
(***************************************************************************)
EXTENDS Integers, Sequences, FiniteSets, TLC

\* ------------------------------------------------------------------ bounds
\* longest file (in lines) drawn for the parser/normalizer specification
MaxLines == 3
\* largest row id any AUTOINCREMENT sequence may hand out in the model
MaxRowId == 4

\* ------------------------------------------------------- program constants
EMBEDDING_MODEL == "text-embedding-3-small"
EMBEDDING_BATCH_SIZE == 20
MIN_CONTENT_LENGTH == 20
TOOL_RESULT_ROLES == {"toolResult", "tool_result", "tool-result"}

\* Python's None, where a string is expected
None == "None"

\* -------------------------------------------------------------------- text
Whitespace == {"_"}

\* a text is a sequence of tokens: "a", "A" and "b" are letters, "_" a
\* space, "-" a hyphen, "q" a double quote, "w19" and "w200" runs of 19 and
\* of 200 letters, "<" and ">" an opening and a closing system tag
TokenWidth(t) ==
    CASE t = "a" -> 1
      [] t = "A" -> 1
      [] t = "b" -> 1
      [] t = "_" -> 1
      [] t = "-" -> 1
      [] t = "q" -> 1
      [] t = "w19" -> 19
      [] t = "w200" -> 200
      [] t = "<" -> 17
      [] t = ">" -> 18

RECURSIVE TextLen(_)
\* len(content): the number of characters of a text
TextLen(s) == IF s = <<>> THEN 0 ELSE TokenWidth(Head(s)) + TextLen(Tail(s))

RECURSIVE LStrip(_)
LStrip(s) == IF s # <<>> /\ Head(s) \in Whitespace THEN LStrip(Tail(s)) ELSE s

RECURSIVE RStrip(_)
RStrip(s) ==
    IF s # <<>> /\ s[Len(s)] \in Whitespace
    THEN RStrip(SubSeq(s, 1, Len(s) - 1)) ELSE s

\* str.strip()
Strip(s) == RStrip(LStrip(s))

\* index of the first closing tag at a position > i, 0 when there is none
FirstCloseAfter(s, i) ==
    LET js == {j \in (i + 1)..Len(s) : s[j] = ">"}
    IN IF js = {} THEN 0 ELSE CHOOSE j \in js : \A k \in js : j <= k

RECURSIVE SubTagsFrom(_, _)
\* CC_SYSTEM_TAG_RE.sub('', s) scanning from position i: every leftmost
\* span from an opening tag to the nearest closing tag is removed
SubTagsFrom(s, i) ==
    IF i > Len(s) THEN <<>>
    ELSE IF s[i] = "<" /\ FirstCloseAfter(s, i) # 0
         THEN SubTagsFrom(s, FirstCloseAfter(s, i) + 1)
         ELSE <<s[i]>> \o SubTagsFrom(s, i + 1)

CC_SYSTEM_TAG_RE_sub(s) == SubTagsFrom(s, 1)

\* ------------------------------------------------------------ log records
\* the value of a "content" field
Str(t) == [k |-> "str", text |-> t, parts |-> <<>>]
Parts(ps) == [k |-> "list", text |-> <<>>, parts |-> ps]
OtherContent == [k |-> "other", text |-> <<>>, parts |-> <<>>]
AbsentContent == [k |-> "absent", text |-> <<>>, parts |-> <<>>]
\* one element of a list content; text "absent" is modelled as the empty text
Part(ty, t) == [type |-> ty, text |-> t]

NoMessage == [present |-> FALSE, hasRole |-> FALSE, role |-> None,
              content |-> AbsentContent]
Message(hasRole, role, content) ==
    [present |-> TRUE, hasRole |-> hasRole, role |-> role, content |-> content]

\* the "timestamp" field of a record: absent, an ISO-8601 string, a number
\* of milliseconds, or a string datetime.fromisoformat rejects.  The instant
\* is a day of one month and an hour of that day.
NoTimestamp == [k |-> "absent", day |-> 0, hour |-> 0]
IsoString(day, hour) == [k |-> "iso", day |-> day, hour |-> hour]
Millis(day, hour) == [k |-> "ms", day |-> day, hour |-> hour]
BadString == [k |-> "bad", day |-> 0, hour |-> 0]

\* a Python datetime, and None where a datetime is expected
Datetime(day, hour) == [none |-> FALSE, day |-> day, hour |-> hour]
NoDatetime == [none |-> TRUE, day |-> 0, hour |-> 0]

\* a line that decodes to a JSON object
\*   type: the "type" field (None when absent)
\*   message: the "message" field;  role/content: the top-level fields
\*   timestamp: the "timestamp" field
Entry(type, message, hasRole, role, hasContent, content) ==
    [kind |-> "object", type |-> type, message |-> message,
     hasRole |-> hasRole, role |-> role,
     hasContent |-> hasContent, content |-> content,
     timestamp |-> NoTimestamp]

\* the record with its "timestamp" field set
At(entry, ts) == [entry EXCEPT !.timestamp = ts]

EmptyEntry == Entry(None, NoMessage, FALSE, None, FALSE, AbsentContent)
\* an empty or whitespace-only line
BlankLine == [EmptyEntry EXCEPT !.kind = "blank"]
\* a line json.loads rejects with JSONDecodeError
GarbageLine == [EmptyEntry EXCEPT !.kind = "garbage"]
\* a line that is valid JSON but no object (42, [1], null, "s")
ScalarLine == [EmptyEntry EXCEPT !.kind = "scalar"]

\* OpenClaw shape {"type": "message", "message": {"role": r, "content": c}}
OpenClaw(r, c) ==
    Entry("message", Message(TRUE, r, c), FALSE, None, FALSE, AbsentContent)
\* the same with no "role" key in the message
OpenClawNoRole(c) ==
    Entry("message", Message(FALSE, None, c), FALSE, None, FALSE, AbsentContent)
\* Claude Code shape {"type": "user"/"assistant", "message": {...}}
ClaudeCode(ty, c) ==
    Entry(ty, Message(FALSE, None, c), FALSE, None, FALSE, AbsentContent)
\* legacy shape {"role": r, "content": c}
Legacy(r, c) == Entry(None, NoMessage, TRUE, r, TRUE, c)
\* any other typed record, e.g. {"type": "summary"}
Unrecognized == Entry("summary", NoMessage, FALSE, None, FALSE, AbsentContent)

\* --------------------------------------------------- parse_session_file
\* the outcome of the generator when the line is followed by the outcome rest
ParseLine(line, rest) ==
    CASE line.kind = "blank" -> rest
      [] line.kind = "garbage" -> rest
      [] line.kind = "scalar" -> [raised |-> TRUE, records |-> <<>>]
      [] line.kind = "object" ->
           [raised |-> rest.raised, records |-> <<line>> \o rest.records]

\* the generator that ran to outcome a goes on with the lines of outcome b
ParseThen(a, b) ==
    IF a.raised THEN a
    ELSE [raised |-> b.raised, records |-> a.records \o b.records]

RECURSIVE ParseRange(_, _, _)
\* the generator over the lines lo..hi, the range being halved so that
\* the evaluation stays shallow on a long file
ParseRange(file, lo, hi) ==
    IF lo > hi THEN [raised |-> FALSE, records |-> <<>>]
    ELSE IF lo = hi
    THEN ParseLine(file[lo], [raised |-> FALSE, records |-> <<>>])
    ELSE ParseThen(ParseRange(file, lo, (lo + hi) \div 2),
                   ParseRange(file, (lo + hi) \div 2 + 1, hi))

\* the generator run to its end from line i: the records yielded in file
\* order, or raised = TRUE when a line made it raise (json.loads gave a
\* non-dict and data['_line_num'] = line_num raised TypeError)
ParseFrom(file, i) == ParseRange(file, i, Len(file))

parse_session_file(file) == ParseFrom(file, 1)

\* ---------------------------------------------------------- _extract_text
RECURSIVE JoinSpace(_)
\* ' '.join(parts)
JoinSpace(ts) ==
    IF ts = <<>> THEN <<>>
    ELSE IF Len(ts) = 1 THEN ts[1]
    ELSE ts[1] \o <<"_">> \o JoinSpace(Tail(ts))

RECURSIVE TextParts(_)
TextParts(ps) ==
    IF ps = <<>> THEN <<>>
    ELSE IF Head(ps).type = "text"
         THEN <<Head(ps).text>> \o TextParts(Tail(ps))
         ELSE TextParts(Tail(ps))

\* [none |-> TRUE] is Python's None
_extract_text(raw) ==
    CASE raw.k = "str" -> [none |-> FALSE, text |-> raw.text]
      [] raw.k = "list" ->
           IF TextParts(raw.parts) = <<>>
           THEN [none |-> TRUE, text |-> <<>>]
           ELSE [none |-> FALSE, text |-> JoinSpace(TextParts(raw.parts))]
      [] OTHER -> [none |-> TRUE, text |-> <<>>]

\* dict.get('content', ''): an absent key reads as the empty string
GetContent(c) == IF c.k = "absent" THEN Str(<<>>) ELSE c

\* ------------------------------------------------------ extract_messages
\* the shape sniffing of one record: the role and raw content it carries,
\* or recognized = FALSE (the loop's first `continue`)
Sniff(entry) ==
    IF entry.type = "message"
    THEN [recognized |-> TRUE, is_cc |-> FALSE,
          role |-> IF entry.message.present /\ entry.message.hasRole
                   THEN entry.message.role ELSE None,
          raw |-> GetContent(entry.message.content)]
    ELSE IF entry.type \in {"user", "assistant"} /\ entry.message.present
    THEN [recognized |-> TRUE, is_cc |-> TRUE,
          role |-> IF entry.message.hasRole THEN entry.message.role
                   ELSE entry.type,
          raw |-> GetContent(entry.message.content)]
    ELSE IF entry.hasRole /\ entry.hasContent /\ entry.type = None
    THEN [recognized |-> TRUE, is_cc |-> FALSE,
          role |-> entry.role, raw |-> entry.content]
    ELSE [recognized |-> FALSE, is_cc |-> FALSE, role |-> None,
          raw |-> AbsentContent]

Dropped == [keep |-> FALSE, role |-> None, content |-> <<>>]

\* index.py 299-303: for the Claude Code shape the system tags are removed
\* and the rest is stripped again
FinalContent(is_cc, stripped) ==
    IF is_cc THEN Strip(CC_SYSTEM_TAG_RE_sub(stripped)) ELSE stripped

\* index.py 294-303 for the extracted text x of a recognized record s
KeepContent(s, x, content) ==
    IF x.none \/ x.text = <<>> \/ Strip(x.text) = <<>> THEN Dropped
    ELSE IF content = <<>> THEN Dropped
    ELSE [keep |-> TRUE, role |-> s.role, content |-> content]

\* as CandidateOf, without the tool-result role test
CandidateNoToolFilter(s) ==
    IF ~s.recognized THEN Dropped
    ELSE KeepContent(s, _extract_text(s.raw),
                     FinalContent(s.is_cc, Strip(_extract_text(s.raw).text)))

\* index.py 291-303 for the sniffed record s
CandidateOf(s) ==
    IF ~s.recognized THEN Dropped
    ELSE IF s.role \in TOOL_RESULT_ROLES THEN Dropped
    ELSE KeepContent(s, _extract_text(s.raw),
                     FinalContent(s.is_cc, Strip(_extract_text(s.raw).text)))

\* the Turn candidate one record contributes: keep = FALSE when the loop
\* body reaches a `continue`
Candidate(entry) == CandidateOf(Sniff(entry))

\* _parse_timestamp(entry): fromisoformat for a string, fromtimestamp for
\* a number, None for an absent field and for a value that raises
_parse_timestamp(entry) ==
    CASE entry.timestamp.k = "iso" ->
           Datetime(entry.timestamp.day, entry.timestamp.hour)
      [] entry.timestamp.k = "ms" ->
           Datetime(entry.timestamp.day, entry.timestamp.hour)
      [] OTHER -> NoDatetime

\* _try_timestamp_from_content(content): the date between brackets a text
\* may carry; no token of the texts modelled here is such a date
_try_timestamp_from_content(content) == NoDatetime

\* index.py 305-307
TimestampOf(entry, content) ==
    IF _parse_timestamp(entry).none
    THEN _try_timestamp_from_content(content)
    ELSE _parse_timestamp(entry)

\* the list `messages` after the loop body has run for the record entry
\* with candidate c
Appended(messages, c, entry) ==
    IF c.keep
    THEN Append(messages, [role |-> c.role, content |-> c.content,
                           timestamp |-> TimestampOf(entry, c.content),
                           message_index |-> Len(messages)])
    ELSE messages

RECURSIVE CollectRange(_, _, _, _)
\* the loop over the records lo..hi, messages being the list built so far;
\* the range is halved and the first half is evaluated before the second
\* begins, so that the evaluation stays shallow
CollectRange(records, lo, hi, messages) ==
    IF lo > hi THEN messages
    ELSE IF lo = hi
    THEN Appended(messages, Candidate(records[lo]), records[lo])
    ELSE LET first == CollectRange(records, lo, (lo + hi) \div 2, messages)
         IN IF Len(first) >= Len(messages)
            THEN CollectRange(records, (lo + hi) \div 2 + 1, hi, first)
            ELSE first

\* the loop over the parsed records, messages being the list built so far
Collect(records, messages) ==
    CollectRange(records, 1, Len(records), messages)

\* index.py 267-321 for the outcome p of the parse
ExtractParsed(p) ==
    IF p.raised THEN [raised |-> TRUE, messages |-> <<>>]
    ELSE [raised |-> FALSE, messages |-> Collect(p.records, <<>>)]

\* extract_messages(filepath) on a file with the given lines
extract_messages(file) == ExtractParsed(parse_session_file(file))

\* ------------------------------------------------------ identity resolver
\* Strings of the resolver are sequences of characters, so that lower(),
\* split(), replace(), the substring tests and int(s, 16) are computed.
S_main == <<"m", "a", "i", "n">>
S_kit == <<"k", "i", "t">>
S_claude == <<"c", "l", "a", "u", "d", "e">>
S_claude_code == <<"c", "l", "a", "u", "d", "e", "-", "c", "o", "d", "e">>
S_cc == <<"c", "c">>
S_cyrus == <<"c", "y", "r", "u", "s">>
S_damian == <<"d", "a", "m", "i", "a", "n">>
S_hale == <<"h", "a", "l", "e">>
S_arthur == <<"a", "r", "t", "h", "u", "r">>
S_roman == <<"r", "o", "m", "a", "n">>
S_sterling == <<"s", "t", "e", "r", "l", "i", "n", "g">>
S_conrad == <<"c", "o", "n", "r", "a", "d">>
S_elara == <<"e", "l", "a", "r", "a">>
S_grok == <<"g", "r", "o", "k">>
S_chat == <<"c", "h", "a", "t">>
S_Kit == <<"K", "i", "t">>
S_Claude == <<"C", "l", "a", "u", "d", "e">>
S_CC == <<"C", "C">>
S_unknown == <<"u", "n", "k", "n", "o", "w", "n">>
S_direct == <<"d", "i", "r", "e", "c", "t">>
S_terminal == <<"t", "e", "r", "m", "i", "n", "a", "l">>
S_telegram == <<"t", "e", "l", "e", "g", "r", "a", "m">>
S_discord == <<"d", "i", "s", "c", "o", "r", "d">>
S_slack == <<"s", "l", "a", "c", "k">>
S_agent == <<"a", "g", "e", "n", "t">>
S_agents == <<"a", "g", "e", "n", "t", "s">>
S_sessions == <<"s", "e", "s", "s", "i", "o", "n", "s">>
S_agents_archive == <<"a", "g", "e", "n", "t", "s", "-", "a", "r", "c", "h", "i", "v", "e">>
S_agents_archive_claude == <<"a", "g", "e", "n", "t", "s", "-", "a", "r", "c", "h", "i", "v", "e", "-", "c", "l", "a", "u", "d", "e">>
S_agents_archive_vps == <<"a", "g", "e", "n", "t", "s", "-", "a", "r", "c", "h", "i", "v", "e", "-", "v", "p", "s">>
S_agents_grok_sessions == <<"a", "g", "e", "n", "t", "s", "-", "g", "r", "o", "k", "-", "s", "e", "s", "s", "i", "o", "n", "s">>
S_agents_chat_sessions == <<"a", "g", "e", "n", "t", "s", "-", "c", "h", "a", "t", "-", "s", "e", "s", "s", "i", "o", "n", "s">>
S_dot_claude == <<".", "c", "l", "a", "u", "d", "e">>
S_projects == <<"p", "r", "o", "j", "e", "c", "t", "s">>
S_home == <<"h", "o", "m", "e">>
S_dot_jsonl == <<".", "j", "s", "o", "n", "l">>
S_dot_deleted == <<".", "d", "e", "l", "e", "t", "e", "d", ".", "1">>
S_CYRUS == <<"C", "Y", "R", "U", "S">>
S_bob == <<"b", "o", "b">>
S_deadbeef == <<"d", "e", "a", "d", "b", "e", "e", "f">>
S_decade == <<"d", "e", "c", "a", "d", "e">>
S_cafe == <<"c", "a", "f", "e">>
S_abc123 == <<"a", "b", "c", "1", "2", "3">>
S_n42 == <<"4", "2">>
S_u8 == <<"1", "a", "2", "b", "3", "c", "4", "d">>
S_u4 == <<"e", "5", "f", "6">>
S_u12 == <<"0", "1", "2", "3", "4", "5", "6", "7", "8", "9", "a", "b">>

\* Python None in metadata['channel_id']
NoChannelId == <<"None">>

UpperCase ==
    <<"A", "B", "C", "D", "E", "F", "G", "H", "I", "J", "K", "L", "M",
      "N", "O", "P", "Q", "R", "S", "T", "U", "V", "W", "X", "Y", "Z">>

LowerCase ==
    <<"a", "b", "c", "d", "e", "f", "g", "h", "i", "j", "k", "l", "m",
      "n", "o", "p", "q", "r", "s", "t", "u", "v", "w", "x", "y", "z">>

LowerChar(c) ==
    IF \E i \in 1..26 : UpperCase[i] = c
    THEN LowerCase[CHOOSE i \in 1..26 : UpperCase[i] = c]
    ELSE c

\* str.lower()
Lower(str) == [i \in 1..Len(str) |-> LowerChar(str[i])]

HexDigits ==
    {"0", "1", "2", "3", "4", "5", "6", "7", "8", "9",
     "a", "b", "c", "d", "e", "f", "A", "B", "C", "D", "E", "F"}

\* int(s, 16) does not raise (signs, blanks, underscores and 0x prefixes do
\* not occur in the names modelled)
ParsesBase16(str) ==
    str # <<>> /\ \A i \in 1..Len(str) : str[i] \in HexDigits

\* str.startswith
StartsWith(str, prefix) ==
    Len(prefix) <= Len(str) /\ SubSeq(str, 1, Len(prefix)) = prefix

\* str.endswith
EndsWith(str, suffix) ==
    /\ Len(suffix) <= Len(str)
    /\ SubSeq(str, Len(str) - Len(suffix) + 1, Len(str)) = suffix

\* the positions at which sub occurs in str
Occurrences(str, sub) ==
    {i \in 1..(Len(str) - Len(sub) + 1) :
        SubSeq(str, i, i + Len(sub) - 1) = sub}

RECURSIVE ReplaceAll(_, _)
\* str.replace(sub, '')
ReplaceAll(str, sub) ==
    IF Occurrences(str, sub) = {} THEN str
    ELSE LET i == CHOOSE k \in Occurrences(str, sub) :
                     \A j \in Occurrences(str, sub) : k <= j
         IN SubSeq(str, 1, i - 1)
              \o ReplaceAll(SubSeq(str, i + Len(sub), Len(str)), sub)

RECURSIVE Split(_, _)
\* str.split(c) for a one-character separator
Split(str, c) ==
    IF \A i \in 1..Len(str) : str[i] # c THEN <<str>>
    ELSE LET i == CHOOSE k \in 1..Len(str) :
                     str[k] = c /\ \A j \in 1..(k - 1) : str[j] # c
         IN <<SubSeq(str, 1, i - 1)>>
              \o Split(SubSeq(str, i + 1, Len(str)), c)

RECURSIVE Join(_, _)
\* c.join(parts)
Join(parts, c) ==
    IF parts = <<>> THEN <<>>
    ELSE IF Len(parts) = 1 THEN parts[1]
    ELSE parts[1] \o <<c>> \o Join(Tail(parts), c)

\* AGENT_NAME_MAP
AGENT_NAME_MAP ==
    [k \in {S_main, S_kit, S_claude, S_claude_code, S_cc, S_cyrus, S_damian,
            S_hale, S_arthur, S_roman, S_sterling, S_conrad, S_elara, S_grok,
            S_chat} |->
        CASE k \in {S_main, S_kit} -> S_Kit
          [] k = S_claude -> S_Claude
          [] k \in {S_claude_code, S_cc} -> S_CC
          [] OTHER -> k]

KNOWN_AGENTS == DOMAIN AGENT_NAME_MAP

_normalize_agent_id(raw_id) ==
    IF Lower(raw_id) \in KNOWN_AGENTS THEN AGENT_NAME_MAP[Lower(raw_id)]
    ELSE raw_id

_is_hex_id(str) ==
    /\ Len(str) >= 6
    /\ ParsesBase16(str)
    /\ Lower(str) \notin KNOWN_AGENTS

S_slash_agents_archive_claude == <<"/">> \o S_agents_archive_claude

S_slash_agents_archive_vps_slash == <<"/">> \o S_agents_archive_vps \o <<"/">>

S_slash_agents_grok_sessions_slash ==
    <<"/">> \o S_agents_grok_sessions \o <<"/">>

S_slash_agents_chat_sessions_slash ==
    <<"/">> \o S_agents_chat_sessions \o <<"/">>

S_claude_projects == S_dot_claude \o <<"/">> \o S_projects

S_dot_deleted_dot == <<".", "d", "e", "l", "e", "t", "e", "d", ".">>

\* the components of str(filepath); the first is empty for an absolute path
Components(path_str) == Split(path_str, "/")

\* filepath.name
NameOf(path_str) == Components(path_str)[Len(Components(path_str))]

\* filepath.parent.name
ParentNameOf(path_str) ==
    IF Len(Components(path_str)) >= 2
    THEN Components(path_str)[Len(Components(path_str)) - 1]
    ELSE <<>>

\* filepath.stem: the name without its last suffix
StemOf(path_str) ==
    LET name == NameOf(path_str)
        dots == {i \in 2..(Len(name) - 1) : name[i] = "."}
    IN IF dots = {} THEN name
       ELSE SubSeq(name, 1, (CHOOSE i \in dots : \A j \in dots : j <= i) - 1)

\* the metadata extract_session_metadata starts from
InitialMetadata ==
    [agent_id |-> S_unknown, channel |-> S_unknown, channel_id |-> NoChannelId]

\* index.py 112-115: re.search(r'/agents/([^/]+)/sessions/', path_str)
StepAgentsDir(md, path_str) ==
    LET c == Components(path_str)
        hits == {i \in 2..(Len(c) - 3) :
                    c[i] = S_agents /\ c[i + 1] # <<>> /\ c[i + 2] = S_sessions}
    IN IF hits = {} THEN md
       ELSE [md EXCEPT
               !.agent_id = _normalize_agent_id(
                   c[(CHOOSE i \in hits : \A j \in hits : i <= j) + 1]),
               !.channel = S_direct]

\* index.py 118-122: re.search(r'/agents-archive[^/]*/([^/]+)/', path_str)
StepArchiveSubdir(md, path_str) ==
    LET c == Components(path_str)
        hits == {i \in 2..(Len(c) - 2) :
                    StartsWith(c[i], S_agents_archive) /\ c[i + 1] # <<>>}
    IN IF md.agent_id # S_unknown \/ hits = {} THEN md
       ELSE [md EXCEPT
               !.agent_id = _normalize_agent_id(
                   c[(CHOOSE i \in hits : \A j \in hits : i <= j) + 1]),
               !.channel = S_direct]

\* index.py 125-128: '/agents-archive-claude' in path_str
StepArchiveClaude(md, path_str) ==
    IF /\ md.agent_id = S_unknown
       /\ Occurrences(path_str, S_slash_agents_archive_claude) # {}
    THEN [md EXCEPT !.agent_id = S_Claude, !.channel = S_direct]
    ELSE md

\* index.py 131-135: '/agents-archive-vps/' in path_str
StepArchiveVps(md, path_str) ==
    IF /\ md.agent_id = S_unknown
       /\ Occurrences(path_str, S_slash_agents_archive_vps_slash) # {}
    THEN [md EXCEPT !.agent_id = S_Kit, !.channel = S_direct]
    ELSE md

\* index.py 138-146: /agents-grok-sessions/ or /agents-chat-sessions/
StepGrokChat(md, path_str) ==
    IF md.agent_id # S_unknown THEN md
    ELSE IF Occurrences(path_str, S_slash_agents_grok_sessions_slash) # {}
    THEN [md EXCEPT !.agent_id = S_grok, !.channel = S_direct]
    ELSE IF Occurrences(path_str, S_slash_agents_chat_sessions_slash) # {}
    THEN [md EXCEPT !.agent_id = S_chat, !.channel = S_direct]
    ELSE md

\* as StepClaudeProjects, the marker deciding the agent as well
StepClaudeProjectsAgent(md, path_str, marker) ==
    IF /\ md.agent_id = S_unknown
       /\ Occurrences(path_str, S_claude_projects) # {}
    THEN IF marker.exists /\ StemOf(path_str) \in marker.ids
         THEN [md EXCEPT !.agent_id = S_Claude, !.channel = S_telegram]
         ELSE [md EXCEPT !.agent_id = S_CC, !.channel = S_terminal]
    ELSE md

\* index.py 149-162: '.claude/projects' in path_str, and the marker file
\* telegram-sessions.json next to the log; marker.ids are the session ids a
\* readable marker lists
StepClaudeProjects(md, path_str, marker) ==
    IF /\ md.agent_id = S_unknown
       /\ Occurrences(path_str, S_claude_projects) # {}
    THEN [md EXCEPT
            !.agent_id = S_CC,
            !.channel = IF marker.exists /\ StemOf(path_str) \in marker.ids
                        THEN S_telegram ELSE S_terminal]
    ELSE md

\* index.py 167: re.sub(r'\.deleted\.\S+$', '', filename)
CleanName(name) ==
    LET hits == {i \in Occurrences(name, S_dot_deleted_dot) :
                    /\ i + Len(S_dot_deleted_dot) <= Len(name)
                    /\ \A j \in (i + Len(S_dot_deleted_dot))..Len(name) :
                          name[j] \notin Whitespace}
    IN IF hits = {} THEN name
       ELSE SubSeq(name, 1, (CHOOSE i \in hits : \A j \in hits : i <= j) - 1)

\* index.py 168: clean_name.replace('.jsonl', '').split('-')
PartsOf(path_str) ==
    Split(ReplaceAll(CleanName(NameOf(path_str)), S_dot_jsonl), "-")

\* as FilenameAgent, overriding whatever the path gave
FilenameAgentAlways(agent_id, raw_agent) ==
    IF Lower(raw_agent) \in KNOWN_AGENTS
    THEN _normalize_agent_id(raw_agent)
    ELSE agent_id

\* index.py 173-176: the agent named in the file name replaces an
\* unresolved or generic ('Kit', 'Claude') identity when it is a known agent
FilenameAgent(agent_id, raw_agent) ==
    IF /\ agent_id = S_unknown \/ agent_id \in {S_Kit, S_Claude}
       /\ Lower(raw_agent) \in KNOWN_AGENTS
    THEN _normalize_agent_id(raw_agent)
    ELSE agent_id

\* as StepFilenameParts, keeping a channel that a path step has set
StepFilenameKeepsChannel(md, parts) ==
    IF parts[1] = S_agent /\ Len(parts) >= 2
    THEN [agent_id |-> FilenameAgent(md.agent_id, parts[2]),
          channel |-> IF Len(parts) >= 3 /\ md.channel = S_unknown
                      THEN parts[3] ELSE md.channel,
          channel_id |->
              IF Len(parts) >= 5 /\ parts[3] \in {S_discord, S_slack, S_telegram}
              THEN IF parts[3] = S_discord
                   THEN Join(SubSeq(parts, 4, Len(parts)), "-")
                   ELSE parts[4]
              ELSE md.channel_id]
    ELSE md

\* index.py 170-181 for the parts of the file name
StepFilenameParts(md, parts) ==
    IF parts[1] = S_agent /\ Len(parts) >= 2
    THEN [agent_id |-> FilenameAgent(md.agent_id, parts[2]),
          channel |-> IF Len(parts) >= 3 THEN parts[3] ELSE md.channel,
          channel_id |->
              IF Len(parts) >= 5 /\ parts[3] \in {S_discord, S_slack, S_telegram}
              THEN IF parts[3] = S_discord
                   THEN Join(SubSeq(parts, 4, Len(parts)), "-")
                   ELSE parts[4]
              ELSE md.channel_id]
    ELSE md

\* index.py 164-181: the agent-{id}-{channel}-... file name
StepFilename(md, path_str) == StepFilenameParts(md, PartsOf(path_str))

\* uuid.UUID(hex) does not raise: 32 hexadecimal digits once the dashes are
\* removed (braces and urn: prefixes do not occur in the names modelled)
UuidParses(str) ==
    /\ Len(ReplaceAll(str, <<"-">>)) = 32
    /\ ParsesBase16(ReplaceAll(str, <<"-">>))

\* index.py 186-193: a UUID stem that no step resolved
StepUuid(md, path_str) ==
    IF md.agent_id = S_unknown /\ UuidParses(StemOf(path_str))
    THEN [md EXCEPT !.agent_id = S_CC, !.channel = S_terminal]
    ELSE md

\* index.py 196-207 for the first part of the file name and the parent
StepFallbackPart(md, part, parent) ==
    IF md.agent_id # S_unknown THEN md
    ELSE IF Lower(part) \in KNOWN_AGENTS
    THEN [md EXCEPT !.agent_id = _normalize_agent_id(Lower(part))]
    ELSE IF _is_hex_id(part) /\ Lower(parent) \in KNOWN_AGENTS
    THEN [md EXCEPT !.agent_id = _normalize_agent_id(parent)]
    ELSE md

\* index.py 196-207: the first part of the file name, else the parent
StepFallback(md, path_str) ==
    StepFallbackPart(md, PartsOf(path_str)[1], ParentNameOf(path_str))

\* as StepFinal, without the check
StepFinalMissing(md) == md

\* index.py 210-211: an identity that looks hexadecimal is rejected
StepFinal(md) ==
    IF _is_hex_id(md.agent_id) THEN [md EXCEPT !.agent_id = S_unknown]
    ELSE md

\* the number of steps of extract_session_metadata
LastStep == 10

\* step k of extract_session_metadata
ApplyStep(k, md, path_str, marker) ==
    CASE k = 1 -> StepAgentsDir(md, path_str)
      [] k = 2 -> StepArchiveSubdir(md, path_str)
      [] k = 3 -> StepArchiveClaude(md, path_str)
      [] k = 4 -> StepArchiveVps(md, path_str)
      [] k = 5 -> StepGrokChat(md, path_str)
      [] k = 6 -> StepClaudeProjects(md, path_str, marker)
      [] k = 7 -> StepFilename(md, path_str)
      [] k = 8 -> StepUuid(md, path_str)
      [] k = 9 -> StepFallback(md, path_str)
      [] k = 10 -> StepFinal(md)

RECURSIVE StepsFrom(_, _, _, _)
StepsFrom(k, md, path_str, marker) ==
    IF k > LastStep THEN md
    ELSE StepsFrom(k + 1, ApplyStep(k, md, path_str, marker), path_str, marker)

\* extract_session_metadata(filepath), marker being the state of
\* telegram-sessions.json in the directory of the file
extract_session_metadata(path_str, marker) ==
    StepsFrom(1, InitialMetadata, path_str, marker)

\* the directories of SpecIdentity
IdentityDirs ==
    {<<S_home, S_agents, S_main, S_sessions>>,
     <<S_home, S_agents, S_deadbeef, S_sessions>>,
     <<S_home, S_agents, S_decade, S_sessions>>,
     <<S_home, S_agents_archive, S_cyrus>>,
     <<S_home, S_agents_archive_claude>>,
     <<S_home, S_agents_archive_vps>>,
     <<S_home, S_agents_archive_vps, S_bob>>,
     <<S_home, S_agents_grok_sessions>>,
     <<S_home, S_agents_chat_sessions>>,
     <<S_home, S_dot_claude, S_projects>>,
     <<S_home>>,
     <<S_home, S_cyrus>>}

S_uuid == Join(<<S_u8, S_u4, S_u4, S_u4, S_u12>>, "-")

\* the file names of SpecIdentity
IdentityNames ==
    {Join(<<S_agent, S_cyrus, S_telegram, S_abc123>>, "-") \o S_dot_jsonl,
     Join(<<S_agent, S_CYRUS, S_discord, S_n42, S_cafe>>, "-") \o S_dot_jsonl,
     Join(<<S_agent, S_bob, S_slack, S_n42, S_cafe>>, "-") \o S_dot_jsonl,
     Join(<<S_agent, S_deadbeef>>, "-") \o S_dot_jsonl,
     Join(<<S_agent, S_main, S_telegram, S_abc123>>, "-")
        \o S_dot_jsonl \o S_dot_deleted,
     S_uuid \o S_dot_jsonl,
     S_uuid \o S_dot_jsonl \o S_dot_deleted,
     S_deadbeef \o S_dot_jsonl,
     Join(<<S_cyrus, S_n42>>, "-") \o S_dot_jsonl,
     S_bob \o S_dot_jsonl}

\* str(filepath) for the absolute paths of SpecIdentity
IdentityPaths ==
    {Join(<<<<>>>> \o d \o <<n>>, "/") : d \in IdentityDirs, n \in IdentityNames}

\* telegram-sessions.json does not exist
NoMarker == [exists |-> FALSE, ids |-> {}]

\* the states of the marker file next to a log
Markers(path_str) ==
    {NoMarker,
     [exists |-> TRUE, ids |-> {}],
     [exists |-> TRUE, ids |-> {StemOf(path_str)}]}

\* extract_session_metadata is called

\* ------------------------------------------------------------ file system
\* a path is its directory and its file stem; str(filepath) is the pair,
\* filepath.stem the stem.  PathA1 and PathA2 share their file name.
PathA1 == [dir |-> "d1", stem |-> "a"]
PathA2 == [dir |-> "d2", stem |-> "a"]
PathB == [dir |-> "d1", stem |-> "b"]
Paths == {PathA1, PathA2, PathB}

\* str(filepath) of the paths: d1 is the archive directory of an agent, d2
\* the archive of the remote host; stem "a" stands for the file a.jsonl,
\* stem "b" for agent-bob-telegram-b.jsonl
PathStr(path) ==
    Join(<<<<>>, S_home>>
         \o (IF path.dir = "d1" THEN <<S_agents_archive, S_cyrus>>
             ELSE <<S_agents_archive_vps>>)
         \o <<(IF path.stem = "a" THEN <<"a">>
                ELSE Join(<<S_agent, S_bob, S_telegram, <<"b">>>>, "-"))
               \o S_dot_jsonl>>,
         "/")

\* index.py 361: metadata = extract_session_metadata(filepath); none of the
\* paths lies under .claude/projects, so no marker file is read
SessionMetadata ==
    [path \in Paths |-> extract_session_metadata(PathStr(path), NoMarker)]

RoleLen(r) ==
    CASE r = "user" -> 4
      [] r = "assistant" -> 9
      [] r = "toolResult" -> 10
      [] r = "tool_result" -> 11
      [] r = "tool-result" -> 11
      [] OTHER -> 0

RECURSIVE PartsLen(_)
PartsLen(ps) ==
    IF ps = <<>> THEN 0 ELSE 2 + TextLen(Head(ps).text) + PartsLen(Tail(ps))

\* the bytes one line takes in the file
LineSize(line) ==
    CASE line.kind = "blank" -> 1
      [] line.kind = "garbage" -> 2
      [] line.kind = "scalar" -> 3
      [] OTHER -> 10 + RoleLen(line.role) + RoleLen(line.message.role)
                  + TextLen(line.content.text) + PartsLen(line.content.parts)
                  + TextLen(line.message.content.text)
                  + PartsLen(line.message.content.parts)

RECURSIVE SizeRange(_, _, _)
\* the bytes of the lines lo..hi
SizeRange(file, lo, hi) ==
    IF lo > hi THEN 0
    ELSE IF lo = hi THEN LineSize(file[lo])
    ELSE SizeRange(file, lo, (lo + hi) \div 2)
         + SizeRange(file, (lo + hi) \div 2 + 1, hi)

\* filepath.stat().st_size
FileSize(file) == SizeRange(file, 1, Len(file))

\* the contents a log file takes in the ingestion specification
FileTool == <<OpenClaw("toolResult", Str(<<"a">>))>>
FileOne == <<OpenClaw("user", Str(<<"a">>))>>
FileTwo == <<OpenClaw("user", Str(<<"a">>)),
             OpenClaw("assistant", Str(<<"w19", "a">>))>>
FileBad == <<OpenClaw("user", Str(<<"a">>)), OpenClawNoRole(Str(<<"a">>))>>
FileContents == {FileTool, FileOne, FileTwo, FileBad}
\* the contents drawn for each path: PathA1 grows and is emptied, PathA2 is
\* its namesake in another directory, PathB may hold a record without role
ContentsOf(path) ==
    CASE path = PathA1 -> {FileOne, FileTwo, FileTool}
      [] path = PathA2 -> {FileOne, FileTwo}
      [] path = PathB -> {FileOne, FileBad}

\* ---------------------------------------------------------------- database
\* the tables of setup_db.SCHEMA as one connection sees them; seq holds the
\* AUTOINCREMENT sequences (sqlite_sequence)
EmptyDb ==
    [sessions |-> {}, messages |-> {}, messages_fts |-> {}, embeddings |-> {},
     index_log |-> {},
     seq |-> [messages |-> 0, embeddings |-> 0, index_log |-> 0]]

\* trigger messages_ai
messages_ai(fts, new) ==
    fts \cup {[rowid |-> new.id, content |-> new.content,
               session_id |-> new.session_id]}

\* as messages_ad, the trigger doing nothing
messages_ad_missing(fts, old) == fts

\* trigger messages_ad
messages_ad(fts, old) ==
    fts \ {[rowid |-> old.id, content |-> old.content,
            session_id |-> old.session_id]}

\* the rows of a table in the order of their ids
RowsById(rows) ==
    [i \in 1..Cardinality(rows) |->
        CHOOSE r \in rows : Cardinality({x \in rows : x.id <= r.id}) = i]

RECURSIVE FireRange(_, _, _, _)
\* messages_ad fired for the deleted rows lo..hi
FireRange(fts, gone, lo, hi) ==
    IF lo > hi THEN fts
    ELSE IF lo = hi THEN messages_ad(fts, gone[lo])
    ELSE LET first == FireRange(fts, gone, lo, (lo + hi) \div 2)
         IN IF first \subseteq fts
            THEN FireRange(first, gone, (lo + hi) \div 2 + 1, hi)
            ELSE first

\* messages_ad fired for every deleted row
FireDeletes(fts, rows) ==
    FireRange(fts, RowsById(rows), 1, Cardinality(rows))

\* index.py 366-369: the four DELETE statements of a re-index
DeleteOld(d, session_id, log_id) ==
    LET gone == {m \in d.messages : m.session_id = session_id}
        goneIds == {m.id : m \in gone}
    IN [d EXCEPT
          !.embeddings = {e \in d.embeddings : e.message_id \notin goneIds},
          !.messages = d.messages \ gone,
          !.messages_fts = FireDeletes(d.messages_fts, gone),
          !.sessions = {s \in d.sessions : s.id # session_id},
          !.index_log = {l \in d.index_log : l.id # log_id}]

\* INSERT OR REPLACE INTO sessions: id is the primary key
InsertOrReplaceSession(d, row) ==
    [d EXCEPT !.sessions = {s \in d.sessions : s.id # row.id} \cup {row}]

\* code points of the separators of a date and time text
SPACE == 32
LETTER_T == 84

\* a date and time text 'YYYY-MM-DD?HH:00:00' as the fields string
\* comparison goes through: the day, the separator, the hour
DateText(dt, sep) == <<dt.day, sep, dt.hour>>

\* SQL NULL in a DATETIME column
NullText == <<>>

\* sqlite3's default adapter for datetime parameters: isoformat(" ")
adapt_datetime(dt) == IF dt.none THEN NullText ELSE DateText(dt, SPACE)

\* datetime.isoformat()
isoformat(dt) == DateText(dt, LETTER_T)

\* index.py 400-412: one turn of the INSERT loop, st being the database,
\* the ids handed out and whether the loop has raised; role is NOT NULL,
\* so a message whose role is None raises IntegrityError
InsertMessage(st, session_id, msg) ==
    IF st.raised THEN st
    ELSE IF msg.role = None THEN [st EXCEPT !.raised = TRUE]
    ELSE [db |-> [st.db EXCEPT
                    !.messages = st.db.messages \cup
                        {[id |-> st.db.seq.messages + 1,
                          session_id |-> session_id,
                          role |-> msg.role, content |-> msg.content,
                          timestamp |-> adapt_datetime(msg.timestamp),
                          message_index |-> msg.message_index]},
                    !.messages_fts =
                        messages_ai(st.db.messages_fts,
                                    [id |-> st.db.seq.messages + 1,
                                     session_id |-> session_id,
                                     role |-> msg.role,
                                     content |-> msg.content,
                                     timestamp |->
                                         adapt_datetime(msg.timestamp),
                                     message_index |-> msg.message_index]),
                    !.seq.messages = st.db.seq.messages + 1],
          message_ids |-> Append(st.message_ids, st.db.seq.messages + 1),
          raised |-> FALSE]

RECURSIVE InsertRange(_, _, _, _, _)
\* the INSERT loop over the messages lo..hi
InsertRange(st, session_id, msgs, lo, hi) ==
    IF lo > hi THEN st
    ELSE IF lo = hi THEN InsertMessage(st, session_id, msgs[lo])
    ELSE LET first == InsertRange(st, session_id, msgs, lo, (lo + hi) \div 2)
         IN IF first.raised THEN first
            ELSE InsertRange(first, session_id, msgs, (lo + hi) \div 2 + 1, hi)

\* index.py 399-412: the INSERT loop; it ends at the first message that
\* raises
InsertMessages(d, session_id, msgs, ids) ==
    InsertRange([db |-> d, message_ids |-> ids, raised |-> FALSE],
                session_id, msgs, 1, Len(msgs))

RECURSIVE Prefix(_, _)
\* s[:n] for a text whose n-th character ends a token
Prefix(s, n) ==
    IF s = <<>> \/ TokenWidth(Head(s)) > n THEN <<>>
    ELSE <<Head(s)>> \o Prefix(Tail(s), n - TokenWidth(Head(s)))

\* the vector the embedding service returns for a text.  The service is a
\* remote model; it is taken to be a function of the text, here of the
\* text's last token, with two integer components.
EmbeddingOf(text) ==
    IF text = <<>> THEN <<1, 0>>
    ELSE CASE text[Len(text)] = "a" -> <<3, 4>>
           [] text[Len(text)] = "A" -> <<4, 3>>
           [] text[Len(text)] = "b" -> <<0, 1>>
           [] OTHER -> <<1, 0>>

\* Python None where a vector is expected
NoVector == <<>>

\* as generate_embeddings, giving up at the first batch that fails
generate_embeddings_break(texts, failed) ==
    [i \in 1..Len(texts) |->
        IF \A b \in 0..((i - 1) \div EMBEDDING_BATCH_SIZE) : b \notin failed
        THEN EmbeddingOf(texts[i]) ELSE NoVector]

\* generate_embeddings(texts, client): the vector of every text of a batch
\* whose call returned, None at the positions of the batches in `failed`
\* (0-based)
generate_embeddings(texts, failed) ==
    [i \in 1..Len(texts) |->
        IF ((i - 1) \div EMBEDDING_BATCH_SIZE) \notin failed
        THEN EmbeddingOf(texts[i]) ELSE NoVector]

\* index.py 425 and 516: the text sent for a Turn is content[:2000];
\* messages are the rows of the messages table
EmbeddedText(messages, message_id) ==
    Prefix((CHOOSE m \in messages : m.id = message_id).content, 2000)

\* index.py 425: texts = [c[1][:2000] for c in embed_candidates]
Texts(messages, mids) ==
    [i \in 1..Len(mids) |-> EmbeddedText(messages, mids[i])]

Min(a, b) == IF a <= b THEN a ELSE b

RECURSIVE InsertVectors(_, _, _, _, _)
\* one INSERT INTO embeddings per pair lo..hi of zip(mids, vectors) whose
\* vector is not None
InsertVectors(d, mids, vectors, lo, hi) ==
    IF lo > hi THEN d
    ELSE IF lo = hi
    THEN IF vectors[lo] # NoVector
         THEN [d EXCEPT !.embeddings = d.embeddings \cup
                           {[id |-> d.seq.embeddings + 1,
                             message_id |-> mids[lo],
                             embedding |-> vectors[lo],
                             model |-> EMBEDDING_MODEL]},
                       !.seq.embeddings = d.seq.embeddings + 1]
         ELSE d
    ELSE LET first == InsertVectors(d, mids, vectors, lo, (lo + hi) \div 2)
         IN IF first.seq.embeddings >= d.seq.embeddings
            THEN InsertVectors(first, mids, vectors, (lo + hi) \div 2 + 1, hi)
            ELSE first

\* index.py 428-434 and 520-526: zip pairs the ids with the vectors and
\* ends with the shorter of the two
InsertEmbeddings(d, mids, vectors) ==
    InsertVectors(d, mids, vectors, 1, Min(Len(mids), Len(vectors)))

RECURSIVE CandidatesRange(_, _, _, _)
\* index.py 418-422 over the messages lo..hi
CandidatesRange(message_ids, msgs, lo, hi) ==
    IF lo > hi THEN <<>>
    ELSE IF lo = hi
    THEN IF TextLen(msgs[lo].content) >= MIN_CONTENT_LENGTH
         THEN <<message_ids[lo]>> ELSE <<>>
    ELSE CandidatesRange(message_ids, msgs, lo, (lo + hi) \div 2)
         \o CandidatesRange(message_ids, msgs, (lo + hi) \div 2 + 1, hi)

\* as EmbedCandidates, without the length test
EmbedAll(message_ids, msgs) == message_ids

\* index.py 418-422: the message ids whose content is long enough
EmbedCandidates(message_ids, msgs) ==
    CandidatesRange(message_ids, msgs, 1, Len(msgs))

\* index.py 339-341: the batches an "Embedding error" line is printed for,
\* those of `failed` that n texts reach
EmbeddingErrors(n, failed) ==
    {b \in failed : b * EMBEDDING_BATCH_SIZE < n}

\* as StoreEmbeddings, the list of vectors holding no None
StoreEmbeddingsCompacted(d, cands, failed) ==
    InsertEmbeddings(d, cands,
        SelectSeq(generate_embeddings(Texts(d.messages, cands), failed),
                  LAMBDA v : v # NoVector))

\* index.py 424-434: the vectors of the candidates are asked for and stored
StoreEmbeddings(d, cands, failed) ==
    InsertEmbeddings(d, cands,
                     generate_embeddings(Texts(d.messages, cands), failed))

\* index.py 436-451: the ledger entry, the commit and the return value
LogAndCommit(d, path, file, count, errors) ==
    [db |-> [d EXCEPT
               !.index_log = d.index_log \cup
                   {[id |-> d.seq.index_log + 1, source_file |-> path,
                     file_size |-> FileSize(file), message_count |-> count]},
               !.seq.index_log = d.seq.index_log + 1],
     status |-> "indexed", commit |-> TRUE, errors |-> errors]

\* index.py 414-451 for the outcome ins of the INSERT loop
AfterInsert(ins, msgs, path, file, embed, failed) ==
    IF ins.raised
    THEN [db |-> ins.db, status |-> "raised", commit |-> FALSE, errors |-> {}]
    ELSE LogAndCommit(
             IF embed
             THEN StoreEmbeddings(ins.db,
                                  EmbedCandidates(ins.message_ids, msgs), failed)
             ELSE ins.db,
             path, file, Len(msgs),
             IF embed
             THEN EmbeddingErrors(
                      Len(EmbedCandidates(ins.message_ids, msgs)), failed)
             ELSE {})

\* index.py 371-451 on the connection state d1 left by the deletes, ex being
\* the outcome of extract_messages
AfterExtract(d1, ex, path, file, embed, failed) ==
    IF ex.raised
    THEN [db |-> d1, status |-> "raised", commit |-> FALSE, errors |-> {}]
    ELSE IF ex.messages = <<>>
    THEN [db |-> d1, status |-> "skipped", commit |-> FALSE, errors |-> {}]
    ELSE AfterInsert(
             InsertMessages(
                 InsertOrReplaceSession(d1,
                     [id |-> path.stem,
                      agent_id |-> SessionMetadata[path].agent_id,
                      channel |-> SessionMetadata[path].channel,
                      channel_id |-> SessionMetadata[path].channel_id,
                      message_count |-> Len(ex.messages),
                      source_file |-> path]),
                 path.stem, ex.messages, <<>>),
             ex.messages, path, file, embed, failed)

\* index.py 354-359: the ledger rows of the path (source_file is UNIQUE)
Existing(d, path) == {l \in d.index_log : l.source_file = path}

\* index_session_file(filepath, conn, generate_embeds, openai_client) on the
\* connection state d; file is the file's content, embed is
\* `generate_embeds and openai_client`, failed the batches whose embedding
\* call fails.  status "raised" is an exception leaving the function; commit
\* tells whether conn.commit() was reached.
index_session_file(d, path, file, embed, failed) ==
    IF Existing(d, path) = {}
    THEN AfterExtract(d, extract_messages(file), path, file, embed, failed)
    ELSE IF \E l \in Existing(d, path) : l.file_size = FileSize(file)
    THEN [db |-> d, status |-> "skipped", commit |-> FALSE, errors |-> {}]
    ELSE AfterExtract(
             DeleteOld(d, path.stem, (CHOOSE l \in Existing(d, path) : TRUE).id),
             extract_messages(file), path, file, embed, failed)

\* the ids in ascending order
SortedIds(ids) ==
    [i \in 1..Cardinality(ids) |->
        CHOOSE x \in ids : Cardinality({j \in ids : j <= x}) = i]

\* index.py 497-505: SELECT ... LEFT JOIN embeddings ... WHERE e.id IS NULL
\* AND LENGTH(m.content) >= ? ORDER BY m.id
BackfillCandidates(d) ==
    SortedIds({m.id : m \in {x \in d.messages :
                  /\ ~\E e \in d.embeddings : e.message_id = x.id
                  /\ TextLen(x.content) >= MIN_CONTENT_LENGTH}})

\* backfill_embeddings(conn, openai_client): failed is the set of batches
\* whose embedding call raises.  Without candidates it returns before any
\* commit.
backfill_embeddings(d, failed) ==
    IF BackfillCandidates(d) = <<>>
    THEN [db |-> d, commit |-> FALSE, errors |-> {}]
    ELSE [db |-> StoreEmbeddings(d, BackfillCandidates(d), failed),
          commit |-> TRUE,
          errors |-> EmbeddingErrors(Len(BackfillCandidates(d)), failed)]

\* -------------------------------------------------------------------- state
VARIABLES
    fs,               \* the content of every log file
    db,               \* the database as the open connection sees it
    disk,             \* the committed database
    todo,             \* index_directory: the files still to visit
    results,          \* index_directory: the counters
    generate_embeds,  \* index_directory: generate_embeds and openai_client
    ret,              \* the last index_session_file call and its outcome
    embed_errors,     \* the batches the last call printed an error for
    bf,               \* backfill_embeddings: its position when run by steps
    resolver,         \* extract_session_metadata: the call run by steps
    marker_file,      \* telegram-sessions.json next to the resolver's file
    _embedding_cache, \* search.py's module-level cache of the vectors
    _embedding_lock,  \* search.py's lock: 0 when free, else the holder
    calls,            \* the semantic_search calls of concurrent threads
    request,          \* the last search call: its function and arguments
    found             \* the list the last search call returned

ingestVars ==
    <<fs, db, disk, todo, results, generate_embeds, ret, embed_errors, bf>>

resolverVars == <<resolver, marker_file>>

searchVars == <<_embedding_cache, request, found>>

lockVars == <<_embedding_lock, calls>>

\* what the ingestion actions leave alone
outsideIngest == <<resolverVars, searchVars, lockVars>>

vars == <<ingestVars, resolverVars, searchVars, lockVars>>

\* Python None where a metadata dict is expected
NoMetadata == [agent_id |-> <<>>, channel |-> <<>>, channel_id |-> <<>>]

\* no extract_session_metadata call is running or has returned
IdleResolver(path_str) ==
    [filepath |-> path_str, pc |-> 0, metadata |-> NoMetadata,
     tg_sessions |-> NoMarker, returned |-> NoMetadata,
     returned_tg |-> NoMarker]

\* the resolver and the marker file where they play no part
ResolverAside ==
    /\ resolver = IdleResolver(<<>>)
    /\ marker_file = NoMarker

\* search.py 26-32: the cache before its first build (matrix is None)
EmptyCache == [built |-> FALSE, metadata |-> {}, count |-> 0,
              filters_hash |-> <<>>]

\* no search is asked for
NoRequest == [fn |-> "none"]

\* the threads that call semantic_search at the same time
Threads == {1, 2}

\* the three references a call takes from the cache (search.py 223-225),
\* each standing for the build whose array or list it is
NoSnapshot == [matrix |-> EmptyCache, norms |-> EmptyCache,
               metadata |-> EmptyCache]

\* a thread that calls nothing
NoCallRunning == [pc |-> "none", rq |-> NoRequest, snapshot |-> NoSnapshot,
                  list |-> <<>>]

\* no thread runs a search by steps
LockAside ==
    /\ _embedding_lock = 0
    /\ calls = [t \in Threads |-> NoCallRunning]

\* the search state where it plays no part
SearchAside ==
    /\ _embedding_cache = EmptyCache
    /\ request = NoRequest
    /\ found = [returned |-> FALSE, raised |-> FALSE, list |-> <<>>]
    /\ LockAside

\* backfill_embeddings is not running
Idle == [pc |-> "idle", candidates |-> <<>>, i |-> 0]

NoPath == [dir |-> "", stem |-> ""]
NoCall == [path |-> NoPath, status |-> "none", size |-> 0]

Init ==
    /\ fs \in [Paths -> FileContents]
    /\ \A p \in Paths : fs[p] \in ContentsOf(p)
    /\ db = EmptyDb
    /\ disk = EmptyDb
    /\ todo = <<>>
    /\ results = [indexed |-> 0, skipped |-> 0, errors |-> 0]
    /\ generate_embeds = FALSE
    /\ ret = NoCall
    /\ embed_errors = {}
    /\ bf = Idle
    /\ ResolverAside
    /\ SearchAside

\* the files source_dir.glob("**/*.jsonl") finds under a directory
Glob(source_dir) == {p \in Paths : p.dir = source_dir}

Orderings(S) ==
    {q \in [1..Cardinality(S) -> S] : \A i, j \in 1..Cardinality(S) :
                                          i # j => q[i] # q[j]}

\* index_directory, up to its loop
StartRun(source_dir, session_files, embed) ==
    /\ todo = <<>>
    /\ bf = Idle
    /\ session_files \in Orderings(Glob(source_dir))
    /\ todo' = session_files
    /\ results' = [indexed |-> 0, skipped |-> 0, errors |-> 0]
    /\ generate_embeds' = embed
    /\ UNCHANGED <<fs, db, disk, ret, embed_errors, bf>>
    /\ UNCHANGED outsideIngest

\* as Tally, with the except clause counting nothing
TallyNoErrors(res, status) ==
    CASE status = "indexed" -> [res EXCEPT !.indexed = res.indexed + 1]
      [] status = "skipped" -> [res EXCEPT !.skipped = res.skipped + 1]
      [] status = "raised" -> res

\* index.py 478-487: the counter that the outcome of a file adds to
Tally(res, status) ==
    CASE status = "indexed" -> [res EXCEPT !.indexed = res.indexed + 1]
      [] status = "skipped" -> [res EXCEPT !.skipped = res.skipped + 1]
      [] status = "raised" -> [res EXCEPT !.errors = res.errors + 1]

\* one iteration of index_directory's loop: index_session_file on the next
\* file, the counters, and the except clause; row ids stay within cap
IndexFile(failed, cap) ==
    /\ todo # <<>>
    /\ \E r \in {index_session_file(db, Head(todo), fs[Head(todo)],
                                    generate_embeds, failed)} :
          /\ r.db.seq.messages <= cap
          /\ r.db.seq.embeddings <= cap
          /\ r.db.seq.index_log <= cap
          /\ db' = r.db
          /\ disk' = IF r.commit THEN r.db ELSE disk
          /\ results' = Tally(results, r.status)
          /\ ret' = [path |-> Head(todo), status |-> r.status,
                     size |-> FileSize(fs[Head(todo)])]
          /\ embed_errors' = r.errors
    /\ todo' = Tail(todo)
    /\ UNCHANGED <<fs, generate_embeds, bf>>
    /\ UNCHANGED outsideIngest

IndexNext(failed) == IndexFile(failed, MaxRowId)

\* main, after the directories: backfill_embeddings
Backfill(failed) ==
    /\ todo = <<>>
    /\ bf = Idle
    /\ \E r \in {backfill_embeddings(db, failed)} :
          /\ r.db.seq.embeddings <= MaxRowId
          /\ db' = r.db
          /\ disk' = IF r.commit THEN r.db ELSE disk
          /\ embed_errors' = r.errors
    /\ ret' = NoCall
    /\ UNCHANGED <<fs, todo, results, generate_embeds, bf>>
    /\ UNCHANGED outsideIngest

\* main's conn.close() and the next process's sqlite3.connect: what was
\* not committed is rolled back
CloseAndReopen ==
    /\ todo = <<>>
    /\ bf = Idle
    /\ db # disk
    /\ db' = disk
    /\ ret' = NoCall
    /\ UNCHANGED <<fs, disk, todo, results, generate_embeds, embed_errors, bf>>
    /\ UNCHANGED outsideIngest

\* the agents writing their logs: a file's content changes.  Every
\* index_session_file call reads its file once, so a write during a run is
\* seen exactly like a write before the run; writes are taken between runs.
WriteFile(path, content) ==
    /\ todo = <<>>
    /\ content # fs[path]
    /\ fs' = [fs EXCEPT ![path] = content]
    /\ UNCHANGED <<db, disk, todo, results, generate_embeds, ret, embed_errors,
                   bf>>
    /\ UNCHANGED outsideIngest

Next ==
    \/ \E d \in {"d1", "d2"}, e \in BOOLEAN :
         \E q \in Orderings(Glob(d)) : StartRun(d, q, e)
    \/ \E failed \in SUBSET {0} : IndexNext(failed)
    \/ \E failed \in SUBSET {0} : Backfill(failed)
    \/ CloseAndReopen
    \/ \E p \in Paths : \E c \in ContentsOf(p) : WriteFile(p, c)

Spec == Init /\ [][Next]_vars

ResolveCall ==
    /\ resolver.pc = 0
    /\ resolver' = [resolver EXCEPT !.pc = 1, !.metadata = InitialMetadata,
                                    !.tg_sessions = NoMarker]
    /\ UNCHANGED <<ingestVars, marker_file, searchVars, lockVars>>

\* the step that looks at the marker file
MarkerStep == 6

\* one step of extract_session_metadata; tg_sessions is the marker file as
\* it was when the call came to it
ResolveStep ==
    /\ resolver.pc \in 1..LastStep
    /\ resolver' =
          [resolver EXCEPT
             !.pc = resolver.pc + 1,
             !.metadata = ApplyStep(resolver.pc, resolver.metadata,
                                    resolver.filepath, marker_file),
             !.tg_sessions = IF resolver.pc = MarkerStep THEN marker_file
                             ELSE resolver.tg_sessions]
    /\ UNCHANGED <<ingestVars, marker_file, searchVars, lockVars>>

\* index.py 213: return metadata
ResolveReturn ==
    /\ resolver.pc = LastStep + 1
    /\ resolver' = [resolver EXCEPT !.pc = 0, !.returned = resolver.metadata,
                                    !.returned_tg = resolver.tg_sessions]
    /\ UNCHANGED <<ingestVars, marker_file, searchVars, lockVars>>

\* another process writes or removes telegram-sessions.json
WriteMarker(marker) ==
    /\ marker # marker_file
    /\ marker_file' = marker
    /\ UNCHANGED <<ingestVars, resolver, searchVars, lockVars>>

\* the ingestion state where it plays no part
IngestAside ==
    /\ fs = [p \in Paths |-> FileOne]
    /\ db = EmptyDb
    /\ disk = EmptyDb
    /\ todo = <<>>
    /\ results = [indexed |-> 0, skipped |-> 0, errors |-> 0]
    /\ generate_embeds = FALSE
    /\ ret = NoCall
    /\ embed_errors = {}
    /\ bf = Idle

InitIdentity ==
    /\ IngestAside
    /\ SearchAside
    /\ \E path_str \in IdentityPaths :
          /\ resolver = IdleResolver(path_str)
          /\ marker_file \in Markers(path_str)

NextIdentity ==
    \/ ResolveCall
    \/ ResolveStep
    \/ ResolveReturn
    \/ \E marker \in Markers(resolver.filepath) : WriteMarker(marker)

SpecIdentity == InitIdentity /\ [][NextIdentity]_vars

\* --------------------------------------------- embedding specification
\* backfill_embeddings by steps: one action per batch, so that the commits
\* and a crash between them are visible

\* index.py 533: the commit of the loop is taken when i + EMBEDDING_BATCH_SIZE
\* is a multiple of this
COMMIT_EVERY == 500

\* index.py 497-511: the candidates are read; without candidates the function
\* returns at once
BackfillStart ==
    /\ todo = <<>>
    /\ bf = Idle
    /\ bf' = IF BackfillCandidates(db) = <<>> THEN Idle
             ELSE [pc |-> "loop", candidates |-> BackfillCandidates(db),
                   i |-> 0]
    /\ embed_errors' = {}
    /\ ret' = NoCall
    /\ UNCHANGED <<fs, db, disk, todo, results, generate_embeds>>
    /\ UNCHANGED outsideIngest

\* index.py 515-516: the batch the loop is at
BackfillBatchIds(b) ==
    SubSeq(b.candidates, b.i + 1,
           Min(b.i + EMBEDDING_BATCH_SIZE, Len(b.candidates)))

\* index.py 514-535: one iteration; ok tells whether the embedding call
\* returned
BackfillBatch(ok) ==
    /\ bf.pc = "loop"
    /\ bf.i < Len(bf.candidates)
    /\ \E d1 \in {IF ok
                  THEN InsertEmbeddings(db, BackfillBatchIds(bf),
                           [k \in 1..Len(BackfillBatchIds(bf)) |->
                               EmbeddingOf(EmbeddedText(db.messages,
                                               BackfillBatchIds(bf)[k]))])
                  ELSE db} :
          /\ db' = d1
          /\ disk' = IF (bf.i + EMBEDDING_BATCH_SIZE) % COMMIT_EVERY = 0
                     THEN d1 ELSE disk
    /\ embed_errors' = IF ok THEN embed_errors
                       ELSE embed_errors \cup {bf.i \div EMBEDDING_BATCH_SIZE}
    /\ bf' = [bf EXCEPT !.i = bf.i + EMBEDDING_BATCH_SIZE]
    /\ UNCHANGED <<fs, todo, results, generate_embeds, ret>>
    /\ UNCHANGED outsideIngest

\* index.py 537-546: the commit after the loop, and the return
BackfillReturn ==
    /\ bf.pc = "loop"
    /\ bf.i >= Len(bf.candidates)
    /\ disk' = db
    /\ bf' = Idle
    /\ UNCHANGED <<fs, db, todo, results, generate_embeds, ret, embed_errors>>
    /\ UNCHANGED outsideIngest

\* the process dies inside backfill_embeddings: the next connection sees
\* the committed database
CrashInBackfill ==
    /\ bf.pc = "loop"
    /\ db' = disk
    /\ bf' = Idle
    /\ embed_errors' = {}
    /\ UNCHANGED <<fs, disk, todo, results, generate_embeds, ret>>
    /\ UNCHANGED outsideIngest

\* the longest log of SpecEmbed
MaxTurns == 48

\* a content of more than 2000 characters
LongText ==
    <<"w200", "w200", "w200", "w200", "w200", "w200", "w200", "w200", "w200",
      "w200", "b", "a">>

\* a log of n turns, every seventh too short to be embedded, the fifth
\* longer than what is sent for it, the others ending in turn with one of
\* three letters
BigFile(n) ==
    [i \in 1..n |->
        IF i % 7 = 0 THEN OpenClaw("user", Str(<<"a">>))
        ELSE IF i = 5 THEN OpenClaw("assistant", Str(LongText))
        ELSE IF i % 3 = 0 THEN OpenClaw("assistant", Str(<<"w19", "a">>))
        ELSE IF i % 3 = 1 THEN OpenClaw("assistant", Str(<<"w19", "b">>))
        ELSE OpenClaw("assistant", Str(<<"w19", "A">>))]

\* a model identifier EMBEDDING_MODEL named before its present value
OtherModel == "text-embedding-ada-002"

\* the database d as a deployment left it whose EMBEDDING_MODEL was model
WrittenUnder(d, model) ==
    [d EXCEPT !.embeddings = {[e EXCEPT !.model = model] : e \in d.embeddings}]

\* one log; the database is empty, or is what an ingestion of the log left
\* when EMBEDDING_MODEL was OtherModel and the second embedding batch failed
InitEmbed ==
    /\ \E n \in 1..MaxTurns, legacy \in BOOLEAN :
          /\ fs = [p \in Paths |-> IF p = PathA2 THEN BigFile(n) ELSE FileOne]
          /\ db = IF legacy
                  THEN WrittenUnder(
                           index_session_file(EmptyDb, PathA2, BigFile(n),
                                              TRUE, {1}).db, OtherModel)
                  ELSE EmptyDb
    /\ disk = db
    /\ todo = <<>>
    /\ results = [indexed |-> 0, skipped |-> 0, errors |-> 0]
    /\ generate_embeds = FALSE
    /\ ret = NoCall
    /\ embed_errors = {}
    /\ bf = Idle
    /\ ResolverAside
    /\ SearchAside

NextEmbed ==
    \/ \E e \in BOOLEAN : StartRun("d2", <<PathA2>>, e)
    \/ \E failed \in SUBSET {0, 1, 2} : IndexFile(failed, MaxTurns)
    \/ BackfillStart
    \/ \E ok \in BOOLEAN : BackfillBatch(ok)
    \/ BackfillReturn
    \/ CrashInBackfill

SpecEmbed == InitEmbed /\ [][NextEmbed]_vars

\* ------------------------------------------- parser/normalizer specification
\* the lines a log file is made of in SpecExtract
Lines ==
    {OpenClaw("user", Str(<<"a">>)),
     OpenClaw("toolResult", Str(<<"a">>)),
     OpenClaw("assistant", Str(<<"_">>)),
     OpenClaw("user", Str(<<"_", "a", "_">>)),
     OpenClaw("assistant", AbsentContent),
     OpenClaw("user", OtherContent),
     OpenClaw("user", Parts(<<Part("tool_use", <<"a">>)>>)),
     ClaudeCode("assistant", Str(<<"<", "a", ">">>)),
     ClaudeCode("user", Str(<<"<", ">", "_", "a">>)),
     Legacy("tool_result", Str(<<"a">>)),
     Legacy("user", Parts(<<Part("text", <<"a">>), Part("tool_use", <<"a">>),
                            Part("text", <<"w19">>)>>)),
     Unrecognized, GarbageLine, BlankLine, ScalarLine}

LogFiles == UNION {[1..n -> Lines] : n \in 1..MaxLines}

\* one log file of arbitrary lines at PathA2, an empty database
InitExtract ==
    /\ \E file \in LogFiles :
          fs = [p \in Paths |-> IF p = PathA2 THEN file ELSE FileOne]
    /\ db = EmptyDb
    /\ disk = EmptyDb
    /\ todo = <<>>
    /\ results = [indexed |-> 0, skipped |-> 0, errors |-> 0]
    /\ generate_embeds = FALSE
    /\ ret = NoCall
    /\ embed_errors = {}
    /\ bf = Idle
    /\ ResolverAside
    /\ SearchAside

NextExtract ==
    \/ \E e \in BOOLEAN : StartRun("d2", <<PathA2>>, e)
    \/ \E failed \in SUBSET {0} : IndexNext(failed)

SpecExtract == InitExtract /\ [][NextExtract]_vars

\* ------------------------------------------------------------------ search
\* the tokens that are letters or digits
WordTokens == {"a", "A", "b", "w19", "w200"}

\* case folding of one token
Fold(t) == IF t = "A" THEN "a" ELSE t

\* str.lower() of a text
FoldText(s) == [i \in 1..Len(s) |-> Fold(s[i])]

RECURSIVE Runs(_, _, _)
\* the maximal runs of tokens outside seps, cur being the run under way
Runs(s, seps, cur) ==
    IF s = <<>> THEN (IF cur = <<>> THEN <<>> ELSE <<cur>>)
    ELSE IF Head(s) \in seps
    THEN (IF cur = <<>> THEN <<>> ELSE <<cur>>) \o Runs(Tail(s), seps, <<>>)
    ELSE Runs(Tail(s), seps, Append(cur, Head(s)))

IsNotQuote(t) == t # "q"
IsNotEmpty(w) == w # <<>>

\* w.replace('"', '')
StripQuotes(w) == SelectSeq(w, IsNotQuote)

\* search.py 64: the words of the query, quotes removed, empty ones dropped
QueryWords(query) ==
    SelectSeq([i \in 1..Len(Runs(query, Whitespace, <<>>)) |->
                  StripQuotes(Runs(query, Whitespace, <<>>)[i])],
              IsNotEmpty)

\* the FTS5 default tokenizer (unicode61): the terms of a text are its
\* maximal runs of letters and digits, case folded
unicode61(text) ==
    Runs(FoldText(text), {"_", "-", "q", "<", ">"}, <<>>)

\* the positions where the sequence part occurs in the sequence whole
Positions(part, whole) ==
    {i \in 1..(Len(whole) - Len(part) + 1) :
        SubSeq(whole, i, i + Len(part) - 1) = part}

\* the FTS5 phrase "word": its terms occur in the text one after the other;
\* a phrase without terms matches nothing
PhraseMatch(word, text) ==
    /\ unicode61(word) # <<>>
    /\ Positions(unicode61(word), unicode61(text)) # {}

\* messages_fts MATCH '"w1" AND "w2" ...'
FtsMatch(words, text) ==
    \A i \in 1..Len(words) : PhraseMatch(words[i], text)

RECURSIVE Occurring(_, _, _)
\* the number of occurrences of the words' phrases in a text
Occurring(words, text, i) ==
    IF i > Len(words) THEN 0
    ELSE Cardinality(Positions(unicode61(words[i]), unicode61(text)))
         + Occurring(words, text, i + 1)

\* bm25(messages_fts), SQLite's ranking function, in hundredths: negative,
\* lower for more occurrences in a shorter text.  keyword_search only sorts
\* by it and reports it.
bm25(words, text) ==
    0 - ((100 * Occurring(words, text, 1)) \div (Len(unicode61(text)) + 1))

\* a < b or a = b for two texts, character by character (SQLite's BINARY
\* collation)
TextLeq(a, b) ==
    \/ /\ Len(a) <= Len(b)
       /\ SubSeq(b, 1, Len(a)) = a
    \/ \E i \in 1..Min(Len(a), Len(b)) :
          /\ SubSeq(a, 1, i - 1) = SubSeq(b, 1, i - 1)
          /\ a[i] < b[i]

\* the SQL test `column >= ?`: NULL is never greater or equal
SqlGeq(column, param) == column # NullText /\ TextLeq(param, column)

\* the SQL test `column <= ?`
SqlLeq(column, param) == column # NullText /\ TextLeq(column, param)

\* datetime.now() - timedelta(days=days)
Cutoff(now, days) == Datetime(now.day - days, now.hour)

\* the arguments of a search call; an absent agent or channel is the empty
\* string, absent days is 0, an absent date is None: all are falsy.  now is
\* datetime.now() during the call, client tells whether OPENAI_AVAILABLE
\* and an openai_client are there, fails whether the embedding service
\* raises (an error or a timeout) when asked for the query vector.
Request(fn, query, agent, channel, days, limit, date_from, date_to, now,
        semantic, client, fails) ==
    [fn |-> fn, query |-> query, agent |-> agent, channel |-> channel,
     days |-> days, limit |-> limit, date_from |-> date_from,
     date_to |-> date_to, now |-> now, semantic |-> semantic,
     client |-> client, fails |-> fails]

\* search.py 86-105 and 151-168: the WHERE clauses the arguments add, for a
\* messages row m joined with its sessions row s
Filters(rq, m, s) ==
    /\ rq.agent # <<>> => s.agent_id = rq.agent
    /\ rq.channel # <<>> => s.channel = rq.channel
    /\ rq.days # 0 =>
          SqlGeq(m.timestamp, adapt_datetime(Cutoff(rq.now, rq.days)))
    /\ ~rq.date_from.none => SqlGeq(m.timestamp, isoformat(rq.date_from))
    /\ ~rq.date_to.none => SqlLeq(m.timestamp, isoformat(rq.date_to))

\* datetime.fromisoformat(row[4]) if row[4] else None
fromisoformat(text) ==
    IF text = NullText THEN NoDatetime ELSE Datetime(text[1], text[3])

\* search.py 36-47
SearchResult(m, s, score) ==
    [session_id |-> m.session_id, agent_id |-> s.agent_id,
     channel |-> s.channel, role |-> m.role, content |-> m.content,
     timestamp |-> fromisoformat(m.timestamp), score |-> score]

\* search.py 69-108: FROM messages_fts JOIN messages JOIN sessions WHERE
\* messages_fts MATCH ?, with the filters; one record per row of the join
KeywordRows(d, rq) ==
    {[m |-> x[2], s |-> x[3],
      score |-> bm25(QueryWords(rq.query), x[1].content)] :
        x \in {y \in d.messages_fts \X d.messages \X d.sessions :
                  /\ y[1].rowid = y[2].id
                  /\ y[2].session_id = y[3].id
                  /\ FtsMatch(QueryWords(rq.query), y[1].content)
                  /\ Filters(rq, y[2], y[3])}}

RECURSIVE Ascending(_)
\* ORDER BY score ASC: every order of the rows with ascending scores, rows
\* of equal score coming in any order
Ascending(rows) ==
    IF rows = {} THEN {<<>>}
    ELSE UNION {{<<r>> \o t : t \in Ascending(rows \ {r})} :
                   r \in {x \in rows : \A y \in rows : x.score <= y.score}}

\* LIMIT n: SQLite takes a negative n as no limit
Limit(q, n) == IF n < 0 THEN q ELSE SubSeq(q, 1, Min(n, Len(q)))

\* search.py 112-122: the list of SearchResult built from the rows
ResultsOf(q) == [i \in 1..Len(q) |-> SearchResult(q[i].m, q[i].s, q[i].score)]

\* keyword_search(conn, query, agent, channel, days, limit, date_from,
\* date_to) on the database d: the lists it can return
keyword_search(d, rq) ==
    IF QueryWords(rq.query) = <<>> THEN {<<>>}
    ELSE {ResultsOf(Limit(q, rq.limit)) : q \in Ascending(KeywordRows(d, rq))}

\* search.py 136: f"{agent}|{channel}|{days}|{date_from}|{date_to}"
FilterKey(rq) == <<rq.agent, rq.channel, rq.days, rq.date_from, rq.date_to>>

\* search.py 145-170: FROM embeddings JOIN messages JOIN sessions with the
\* filters; one record per row, its vector in it
EmbeddingRows(d, rq) ==
    {[row |-> x[1].id, m |-> x[2], s |-> x[3], embedding |-> x[1].embedding] :
        x \in {y \in d.embeddings \X d.messages \X d.sessions :
                  /\ y[1].message_id = y[2].id
                  /\ y[2].session_id = y[3].id
                  /\ Filters(rq, y[2], y[3])}}

\* what a build from storage under the filters of rq leaves
FreshBuild(d, rq) ==
    [built |-> TRUE, metadata |-> EmbeddingRows(d, rq),
     count |-> Cardinality(d.embeddings), filters_hash |-> FilterKey(rq)]

\* the filter key and the recorded row count of the cache are the current
\* ones
Current(cache, d, rq) ==
    /\ cache.filters_hash = FilterKey(rq)
    /\ cache.count = Cardinality(d.embeddings)

\* as _build_embedding_cache, without the row count in the validity test
_build_embedding_cache_any_count(cache, d, rq) ==
    IF /\ cache.built
       /\ cache.filters_hash = FilterKey(rq)
    THEN cache
    ELSE [built |-> TRUE, metadata |-> EmbeddingRows(d, rq),
          count |-> Cardinality(d.embeddings), filters_hash |-> FilterKey(rq)]

\* _build_embedding_cache(conn, agent, channel, days, date_from, date_to):
\* the cache it leaves.  The rows come in the order SQLite reads them, which
\* the query does not fix; the cache holds them as a set and the order is
\* chosen where it shows, among rows of equal similarity.
_build_embedding_cache(cache, d, rq) ==
    IF /\ cache.built
       /\ cache.count = Cardinality(d.embeddings)
       /\ cache.filters_hash = FilterKey(rq)
    THEN cache
    ELSE [built |-> TRUE, metadata |-> EmbeddingRows(d, rq),
          count |-> Cardinality(d.embeddings), filters_hash |-> FilterKey(rq)]

\* np.linalg.norm of a vector with an integer norm
Norm(v) == CHOOSE n \in 0..(v[1] * v[1] + v[2] * v[2]) :
               n * n = v[1] * v[1] + v[2] * v[2]

\* search.py 228: the cosine similarity in hundredths, rounded down
Similarity(v, q_emb) ==
    (100 * (v[1] * q_emb[1] + v[2] * q_emb[2])) \div (Norm(v) * Norm(q_emb))

\* search.py 236, in hundredths
MIN_SIMILARITY == 45

\* the rows of the cache with their similarity to the query vector
Scored(metadata, q_emb) ==
    {[row |-> r.row, m |-> r.m, s |-> r.s,
      score |-> Similarity(r.embedding, q_emb)] : r \in metadata}

\* search.py 231-232: top_k = min(limit * 3, N) and the slice [-top_k:] of
\* the partition; for top_k = 0 the slice [-0:] is the whole array
TopSets(rows, limit) ==
    IF Min(limit * 3, Cardinality(rows)) = 0 THEN {rows}
    ELSE {T \in SUBSET rows :
             /\ Cardinality(T) = Min(limit * 3, Cardinality(rows))
             /\ \A x \in T : \A y \in rows \ T : x.score >= y.score}

RECURSIVE Descending(_)
\* search.py 233: argsort reversed, rows of equal similarity in any order
Descending(rows) ==
    IF rows = {} THEN {<<>>}
    ELSE UNION {{<<r>> \o t : t \in Descending(rows \ {r})} :
                   r \in {x \in rows : \A y \in rows : x.score >= y.score}}

\* search.py 245: f"{meta[4]}:{meta[5][:200]}"
Fingerprint200(r) == <<r.m.role, Prefix(r.m.content, 200)>>

RECURSIVE ScanNoFloor(_, _, _, _)
\* as Scan, without the floor
ScanNoFloor(order, seen, res, limit) ==
    IF order = <<>> THEN res
    ELSE IF Fingerprint200(Head(order)) \in seen
    THEN ScanNoFloor(Tail(order), seen, res, limit)
    ELSE IF Len(res) + 1 >= limit
    THEN Append(res, Head(order))
    ELSE ScanNoFloor(Tail(order), seen \cup {Fingerprint200(Head(order))},
                     Append(res, Head(order)), limit)

RECURSIVE Scan(_, _, _, _)
\* search.py 236-259: the loop over the candidates in order; it ends at
\* the first one under the floor and when res holds limit results
Scan(order, seen, res, limit) ==
    IF order = <<>> THEN res
    ELSE IF Head(order).score < MIN_SIMILARITY THEN res
    ELSE IF Fingerprint200(Head(order)) \in seen
    THEN Scan(Tail(order), seen, res, limit)
    ELSE IF Len(res) + 1 >= limit
    THEN Append(res, Head(order))
    ELSE Scan(Tail(order), seen \cup {Fingerprint200(Head(order))},
              Append(res, Head(order)), limit)

\* search.py 215-261: the semantic path on the cache c the build left
SemanticPath(c, rq) ==
    IF c.metadata = {} THEN {<<>>}
    ELSE UNION {{ResultsOf(Scan(order, {}, <<>>, rq.limit)) :
                    order \in Descending(T)} :
                   T \in TopSets(Scored(c.metadata, EmbeddingOf(rq.query)),
                                 rq.limit)}

\* semantic_search(conn, query, agent, channel, days, limit, openai_client,
\* date_from, date_to): the cache it leaves and the lists it can return
semantic_search(cache, d, rq) ==
    IF ~rq.client
    THEN [cache |-> cache, lists |-> keyword_search(d, rq), raised |-> FALSE]
    ELSE IF rq.fails
    THEN [cache |-> cache, lists |-> {}, raised |-> TRUE]
    ELSE [cache |-> _build_embedding_cache(cache, d, rq),
          lists |-> SemanticPath(_build_embedding_cache(cache, d, rq), rq),
          raised |-> FALSE]

RECURSIVE deduplicate_results(_, _, _)
\* search.py 289-298: the loop of deduplicate_results over list
deduplicate_results(list, seen_content, unique) ==
    IF list = <<>> THEN unique
    ELSE IF <<Head(list).role, Prefix(Head(list).content, 500)>>
               \in seen_content
    THEN deduplicate_results(Tail(list), seen_content, unique)
    ELSE deduplicate_results(
             Tail(list),
             seen_content
                 \cup {<<Head(list).role, Prefix(Head(list).content, 500)>>},
             Append(unique, Head(list)))

\* search_conversations(query, agent, channel, days, semantic, limit,
\* db_path, date_from, date_to): its connection sees the database d
search_conversations(cache, d, rq) ==
    IF rq.semantic THEN semantic_search(cache, d, rq)
    ELSE [cache |-> cache, lists |-> keyword_search(d, rq), raised |-> FALSE]

\* --------------------------------------------------- search specification
\* largest row id handed out while the logs of SpecSearch are ingested
MaxSearchRowId == 7
\* largest limit asked for
MaxLimit == 2

\* the logs of SpecSearch: a session of an agent, a second session holding
\* the same assistant Turn (an overlapping snapshot), and a session of the
\* remote host with two long Turns that differ after 200 characters and a
\* short one
SearchFileA1 ==
    <<At(OpenClaw("user", Str(<<"a", "_", "b">>)), IsoString(2, 9)),
      At(OpenClaw("assistant", Str(<<"w19", "a">>)), IsoString(2, 23))>>
SearchFileB ==
    <<At(OpenClaw("assistant", Str(<<"w19", "a">>)), Millis(3, 10)),
      OpenClaw("user", Str(<<"b", "_", "w19", "A">>))>>
SearchFileA2 ==
    <<At(OpenClaw("assistant", Str(<<"w200", "a">>)), IsoString(1, 8)),
      At(OpenClaw("assistant", Str(<<"w200", "b">>)), BadString),
      At(OpenClaw("user", Str(<<"w19", "b">>)), IsoString(3, 11))>>

SearchFiles ==
    [p \in Paths |-> CASE p = PathA1 -> SearchFileA1
                       [] p = PathB -> SearchFileB
                       [] p = PathA2 -> SearchFileA2]

\* the query strings asked
SearchQueries ==
    {<<"a">>, <<"A", "_", "b">>, <<"q", "w19", "a", "q">>, <<"q">>,
     <<"a", "-", "b">>, <<"w19">>}

\* the bound every date argument is drawn from, and datetime.now()
Bound == Datetime(2, 10)
Now == Datetime(3, 12)

\* the time arguments of a call: none, days, date_from, or date_to
TimeArguments ==
    {[days |-> 0, date_from |-> NoDatetime, date_to |-> NoDatetime],
     [days |-> 1, date_from |-> NoDatetime, date_to |-> NoDatetime],
     [days |-> 0, date_from |-> Bound, date_to |-> NoDatetime],
     [days |-> 0, date_from |-> NoDatetime, date_to |-> Bound]}

\* the calls a client makes
Requests ==
    {Request(c.fn, query, agent, channel, t.days, limit, t.date_from,
             t.date_to, Now, c.semantic, c.client, c.fails) :
        c \in {[fn |-> "keyword_search", semantic |-> FALSE, client |-> FALSE,
                fails |-> FALSE],
               [fn |-> "semantic_search", semantic |-> TRUE, client |-> FALSE,
                fails |-> FALSE],
               [fn |-> "semantic_search", semantic |-> TRUE, client |-> TRUE,
                fails |-> FALSE],
               [fn |-> "semantic_search", semantic |-> TRUE, client |-> TRUE,
                fails |-> TRUE],
               [fn |-> "search_conversations", semantic |-> FALSE,
                client |-> FALSE, fails |-> FALSE],
               [fn |-> "search_conversations", semantic |-> TRUE,
                client |-> FALSE, fails |-> FALSE],
               [fn |-> "search_conversations", semantic |-> TRUE,
                client |-> TRUE, fails |-> FALSE]},
        query \in SearchQueries, agent \in {<<>>, S_cyrus},
        channel \in {<<>>, S_telegram}, t \in TimeArguments,
        limit \in 0..MaxLimit}

\* nothing has been returned yet
NotReturned == [returned |-> FALSE, raised |-> FALSE, list |-> <<>>]

\* the call named fn returns one of the lists of r, or an exception leaves
\* it, and r's cache is left
Return(fn, r) ==
    /\ request.fn = fn
    /\ _embedding_cache' = r.cache
    /\ IF r.raised
       THEN found' = [returned |-> FALSE, raised |-> TRUE, list |-> <<>>]
       ELSE \E list \in r.lists :
               found' = [returned |-> TRUE, raised |-> FALSE, list |-> list]
    /\ UNCHANGED <<request, ingestVars, resolverVars, lockVars>>

\* a process with its own connection calls keyword_search: it reads the
\* committed database
KeywordSearch ==
    Return("keyword_search",
           [cache |-> _embedding_cache, lists |-> keyword_search(disk, request),
            raised |-> FALSE])

SemanticSearch ==
    Return("semantic_search", semantic_search(_embedding_cache, disk, request))

SearchConversations ==
    Return("search_conversations",
           search_conversations(_embedding_cache, disk, request))

\* the logs are there, nothing is indexed, and a client is about to make
\* the call `request`, once or several times
InitSearch ==
    /\ fs = SearchFiles
    /\ db = EmptyDb
    /\ disk = EmptyDb
    /\ todo = <<>>
    /\ results = [indexed |-> 0, skipped |-> 0, errors |-> 0]
    /\ generate_embeds = FALSE
    /\ ret = NoCall
    /\ embed_errors = {}
    /\ bf = Idle
    /\ ResolverAside
    /\ _embedding_cache = EmptyCache
    /\ request \in Requests
    /\ found = NotReturned
    /\ LockAside

\* no file of the directory is in the ledger
NotIndexed(source_dir) ==
    \A p \in Glob(source_dir) : Existing(db, p) = {}

\* each directory is indexed once, with or without embeddings, while the
\* client makes its calls
NextSearch ==
    \/ \E d \in {"d1", "d2"}, e \in BOOLEAN :
         \E q \in Orderings(Glob(d)) : NotIndexed(d) /\ StartRun(d, q, e)
    \/ IndexFile({}, MaxSearchRowId)
    \/ KeywordSearch
    \/ SemanticSearch
    \/ SearchConversations

SpecSearch == InitSearch /\ [][NextSearch]_vars

\* ------------------------------------------ semantic search and ingestion

\* agent-bob-telegram-b.jsonl after the agent rewrote it: the first Turn
\* has another text, of another length, and an earlier time
SearchFileB2 ==
    <<At(OpenClaw("assistant", Str(<<"w19", "a", "b">>)), Millis(1, 10)),
      OpenClaw("user", Str(<<"b", "_", "w19", "A">>))>>

\* semantic_search calls with a client that answers
CacheRequests ==
    {Request("semantic_search", query, agent, <<>>, t.days, MaxLimit,
             t.date_from, t.date_to, Now, TRUE, TRUE, FALSE) :
        query \in {<<"a">>, <<"A", "_", "b">>}, agent \in {<<>>, S_cyrus},
        t \in TimeArguments}

InitCache ==
    /\ fs = SearchFiles
    /\ db = EmptyDb
    /\ disk = EmptyDb
    /\ todo = <<>>
    /\ results = [indexed |-> 0, skipped |-> 0, errors |-> 0]
    /\ generate_embeds = FALSE
    /\ ret = NoCall
    /\ embed_errors = {}
    /\ bf = Idle
    /\ ResolverAside
    /\ _embedding_cache = EmptyCache
    /\ request \in CacheRequests
    /\ found = NotReturned
    /\ LockAside

\* one process: a directory is indexed again and again while the agent
\* rewrites a log and the client repeats its semantic query
NextCache ==
    \/ \E e \in BOOLEAN :
         \E q \in Orderings(Glob("d1")) : StartRun("d1", q, e)
    \/ IndexFile({}, MaxSearchRowId + 1)
    \/ \E c \in {SearchFileB, SearchFileB2} : WriteFile(PathB, c)
    \/ SemanticSearch

SpecCache == InitCache /\ [][NextCache]_vars

\* ------------------------------------------- concurrent semantic searches

\* the store after index_directory on /home/agents-archive/cyrus/ with
\* embeddings
LockStore ==
    index_session_file(
        index_session_file(EmptyDb, PathA1, SearchFileA1, TRUE, {}).db,
        PathB, SearchFileB, TRUE, {}).db

\* the semantic_search calls the threads make, with a client that answers
LockRequests ==
    {Request("semantic_search", <<"a">>, <<>>, channel, 0, MaxLimit,
             NoDatetime, date_to, Now, TRUE, TRUE, FALSE) :
        channel \in {<<>>, S_telegram}, date_to \in {NoDatetime, Bound}}

InitLock ==
    /\ fs = SearchFiles
    /\ db = LockStore
    /\ disk = LockStore
    /\ todo = <<>>
    /\ results = [indexed |-> 0, skipped |-> 0, errors |-> 0]
    /\ generate_embeds = FALSE
    /\ ret = NoCall
    /\ embed_errors = {}
    /\ bf = Idle
    /\ ResolverAside
    /\ _embedding_cache = EmptyCache
    /\ request = NoRequest
    /\ found = NotReturned
    /\ _embedding_lock = 0
    /\ calls \in [Threads -> {[pc |-> "embed", rq |-> rq,
                                snapshot |-> NoSnapshot, list |-> <<>>] :
                                  rq \in LockRequests}]

\* thread t goes to pc, and the rest of the program stands still
Goes(t, pc, cache, lock, snapshot, list) ==
    /\ calls' = [calls EXCEPT ![t] = [pc |-> pc, rq |-> calls[t].rq,
                                      snapshot |-> snapshot, list |-> list]]
    /\ _embedding_cache' = cache
    /\ _embedding_lock' = lock
    /\ UNCHANGED <<request, found, ingestVars, resolverVars>>

\* search.py 211-214: the query vector, before the lock is asked for
QueryEmbedding(t) ==
    /\ calls[t].pc = "embed"
    /\ Goes(t, "acquire", _embedding_cache, _embedding_lock, NoSnapshot, <<>>)

\* as Acquire, entering whoever holds the lock
AcquireUnlocked(t) ==
    /\ calls[t].pc = "acquire"
    /\ Goes(t, "check", _embedding_cache, t, NoSnapshot, <<>>)

\* search.py 215: with _embedding_lock
Acquire(t) ==
    /\ calls[t].pc = "acquire"
    /\ _embedding_lock = 0
    /\ Goes(t, "check", _embedding_cache, t, NoSnapshot, <<>>)

\* search.py 136-143: the row count, the filter key and the validity test
Check(t) ==
    /\ calls[t].pc = "check"
    /\ Goes(t, IF /\ _embedding_cache.built
                  /\ Current(_embedding_cache, disk, calls[t].rq)
               THEN "guard" ELSE "build",
            _embedding_cache, _embedding_lock, NoSnapshot, <<>>)

\* search.py 145-191: the query and the assignment of the new cache
Build(t) ==
    /\ calls[t].pc = "build"
    /\ Goes(t, "guard", FreshBuild(disk, calls[t].rq), _embedding_lock,
            NoSnapshot, <<>>)

\* search.py 219-220: a cache without rows returns the empty list and
\* leaves the with block
Guard(t) ==
    /\ calls[t].pc = "guard"
    /\ IF ~_embedding_cache.built \/ _embedding_cache.metadata = {}
       THEN Goes(t, "done", _embedding_cache, 0, NoSnapshot, <<>>)
       ELSE Goes(t, "matrix", _embedding_cache, _embedding_lock, NoSnapshot,
                 <<>>)

\* search.py 223: matrix = _embedding_cache["matrix"]
ReadMatrix(t) ==
    /\ calls[t].pc = "matrix"
    /\ Goes(t, "norms", _embedding_cache, _embedding_lock,
            [calls[t].snapshot EXCEPT !.matrix = _embedding_cache], <<>>)

\* search.py 224: norms = _embedding_cache["norms"]
ReadNorms(t) ==
    /\ calls[t].pc = "norms"
    /\ Goes(t, "metadata", _embedding_cache, _embedding_lock,
            [calls[t].snapshot EXCEPT !.norms = _embedding_cache], <<>>)

\* search.py 225: metadata = _embedding_cache["metadata"], and the end of
\* the with block
ReadMetadata(t) ==
    /\ calls[t].pc = "metadata"
    /\ Goes(t, "score", _embedding_cache, 0,
            [calls[t].snapshot EXCEPT !.metadata = _embedding_cache], <<>>)

\* search.py 228-261: the similarities of the rows of the matrix taken and
\* the loop over the top candidates, outside the lock
Score(t) ==
    /\ calls[t].pc = "score"
    /\ \E list \in SemanticPath(calls[t].snapshot.matrix, calls[t].rq) :
          Goes(t, "done", _embedding_cache, _embedding_lock,
               calls[t].snapshot, list)

\* the thread makes its next call, with any of the requests
CallAgain(t) ==
    /\ calls[t].pc = "done"
    /\ \E rq \in LockRequests :
          /\ calls' = [calls EXCEPT ![t] = [pc |-> "embed", rq |-> rq,
                                            snapshot |-> NoSnapshot,
                                            list |-> <<>>]]
          /\ UNCHANGED <<_embedding_cache, _embedding_lock, request, found,
                         ingestVars, resolverVars>>

NextLock ==
    \E t \in Threads :
        \/ QueryEmbedding(t)
        \/ Acquire(t)
        \/ Check(t)
        \/ Build(t)
        \/ Guard(t)
        \/ ReadMatrix(t)
        \/ ReadNorms(t)
        \/ ReadMetadata(t)
        \/ Score(t)
        \/ CallAgain(t)

SpecLock == InitLock /\ [][NextLock]_vars

\* ----------------------------------------------- files that hold no turn

\* a log of the size of FileOne whose only record has a blank content
FileBlank == <<OpenClaw("user", Str(<<"_">>))>>

InitSkip ==
    /\ fs = [p \in Paths |-> FileOne]
    /\ db = EmptyDb
    /\ disk = EmptyDb
    /\ todo = <<>>
    /\ results = [indexed |-> 0, skipped |-> 0, errors |-> 0]
    /\ generate_embeds = FALSE
    /\ ret = NoCall
    /\ embed_errors = {}
    /\ bf = Idle
    /\ ResolverAside
    /\ SearchAside

\* the archive directory of one agent is indexed again and again, by one
\* process or by the next one, while a.jsonl is rewritten
NextSkip ==
    \/ \E q \in Orderings(Glob("d1")) : StartRun("d1", q, FALSE)
    \/ IndexNext({})
    \/ CloseAndReopen
    \/ \E c \in {FileOne, FileTool, FileBlank} : WriteFile(PathA1, c)

SpecSkip == InitSkip /\ [][NextSkip]_vars

\* ------------------------------------------------------------------ claims
\* the step is one index_session_file call, on Head(todo)
IndexStep == todo # <<>> /\ todo' = Tail(todo)

TurnsOf(d, session_id) == {m \in d.messages : m.session_id = session_id}

\* C1: a second index_session_file call on a file whose size is what it was
\* at the call before returns 'skipped' and leaves every row as it was.
C1_Idempotent ==
    [][(IndexStep /\ ret.path = Head(todo)
            /\ ret.size = FileSize(fs[Head(todo)]))
         => (ret'.status = "skipped" /\ db' = db)]_vars

\* C2: when the ledger holds another size than the file has now, after the
\* call the rows of the earlier ingestion and the old ledger entry are gone,
\* the session holds exactly the turns of the current content, and a ledger
\* entry records the new size and turn count.
C2_Growth ==
    [][(IndexStep /\ \E l \in db.index_log :
                        /\ l.source_file = Head(todo)
                        /\ l.file_size # FileSize(fs[Head(todo)]))
         => LET p == Head(todo)
                now == extract_messages(fs[p]).messages
                old == TurnsOf(db, p.stem)
            IN /\ \A m \in TurnsOf(db', p.stem) : m.id > db.seq.messages
               /\ \A e \in db'.embeddings :
                     e.message_id \notin {m.id : m \in old}
               /\ \A l \in db'.index_log :
                     l.source_file = p => l.id > db.seq.index_log
               /\ Cardinality(TurnsOf(db', p.stem)) = Len(now)
               /\ \A i \in 1..Len(now) : \E m \in TurnsOf(db', p.stem) :
                     /\ m.message_index = now[i].message_index
                     /\ m.role = now[i].role
                     /\ m.content = now[i].content
               /\ \E l \in db'.index_log :
                     /\ l.source_file = p
                     /\ l.file_size = FileSize(fs[p])
                     /\ l.message_count = Len(now)]_vars

\* C3: in the committed database a file has all of its rows or none: every
\* Session row persisted has the ledger entry that its file's ingestion
\* writes last.
C3_AtomicPerFile ==
    \A s \in disk.sessions :
        \E l \in disk.index_log : l.source_file = s.source_file

\* C4: the message_index values of the N Turns of every Session are exactly
\* 0..N-1, each once.
C4_SequenceDensity ==
    \A s \in disk.sessions :
        LET turns == TurnsOf(disk, s.id)
        IN /\ {m.message_index : m \in turns} = 0..(Cardinality(turns) - 1)
           /\ \A m1, m2 \in turns :
                 m1.message_index = m2.message_index => m1 = m2

\* the rows of the database that belong to a source file path
RowsOf(d, path) ==
    LET sess == {s \in d.sessions : s.source_file = path}
        turns == {m \in d.messages : \E s \in sess : s.id = m.session_id}
    IN [sessions |-> sess,
        messages |-> turns,
        embeddings |-> {e \in d.embeddings :
                           \E m \in turns : m.id = e.message_id},
        index_log |-> {l \in d.index_log : l.source_file = path}]

\* C5: an index_session_file call on one path leaves the Session, Turn,
\* Embedding and ledger rows of every other path as they were.
C5_FileIndependence ==
    [][IndexStep =>
         \A q \in Paths \ {Head(todo)} : RowsOf(db', q) = RowsOf(db, q)]_vars

\* the Turn ids keyword_search can return: messages_fts joined to messages
\* on the rowid and to sessions on the session id
KeywordReachable(d) ==
    {f.rowid : f \in {x \in d.messages_fts :
         \E m \in d.messages :
             m.id = x.rowid /\ \E s \in d.sessions : s.id = m.session_id}}

FtsInSync(d) ==
    /\ d.messages_fts =
         {[rowid |-> m.id, content |-> m.content, session_id |-> m.session_id]
            : m \in d.messages}
    /\ KeywordReachable(d) = {m.id : m \in d.messages}

\* C6: the lexical index holds exactly the Turn rows, in the connection and
\* in the committed database: deleted Turns are not reachable by
\* keyword_search, inserted Turns are.
C6_FtsSynchrony == FtsInSync(db) /\ FtsInSync(disk)

\* C6 witness: committed Turns exist while Turns with smaller ids were
\* deleted by a session replacement.
C6_Witness ==
    /\ disk.messages # {}
    /\ \E i \in 1..disk.seq.messages : \A m \in disk.messages : m.id # i
    /\ disk.index_log # {}

AllBlank(t) == \A i \in 1..Len(t) : t[i] \in Whitespace

\* a record the normalizer must drop: tool-result role, or extracted content
\* missing, empty or blank (for the Claude Code shape, once tags are removed)
IsNoise(line) ==
    /\ line.kind = "object"
    /\ Sniff(line).recognized
    /\ \/ Sniff(line).role \in TOOL_RESULT_ROLES
       \/ _extract_text(Sniff(line).raw).none
       \/ AllBlank(_extract_text(Sniff(line).raw).text)
       \/ /\ Sniff(line).is_cc
          /\ AllBlank(CC_SYSTEM_TAG_RE_sub(_extract_text(Sniff(line).raw).text))

RemoveAt(s, i) == SubSeq(s, 1, i - 1) \o SubSeq(s, i + 1, Len(s))

\* C7: a noise record contributes no Turn candidate (the candidates of a file
\* are those of the file without the record), and every Turn row has a role
\* outside the tool-result set and non-empty, trimmed content.
C7_NoiseExclusion ==
    /\ \A p \in Paths : \A i \in 1..Len(fs[p]) :
          IsNoise(fs[p][i]) =>
             extract_messages(RemoveAt(fs[p], i)) = extract_messages(fs[p])
    /\ \A m \in db.messages \cup disk.messages :
          /\ m.role \notin TOOL_RESULT_ROLES
          /\ m.content # <<>>
          /\ m.content[1] \notin Whitespace
          /\ m.content[Len(m.content)] \notin Whitespace

\* C7 witness: a file holding a noise record and a conversational record has
\* been ingested.
C7_Witness ==
    /\ ret.status = "indexed"
    /\ \E i \in 1..Len(fs[ret.path]) : IsNoise(fs[ret.path][i])
    /\ TurnsOf(disk, ret.path.stem) # {}

\* a valid conversational line
Conversational(line) ==
    line.kind = "object" /\ Sniff(line).recognized /\ ~IsNoise(line)

\* C8: whatever its lines, the first ingestion of a file raises no error and
\* persists exactly one Turn per valid conversational line.
C8_LineTolerance ==
    [][(/\ IndexStep
        /\ \A l \in db.index_log : l.source_file # Head(todo)
        /\ TurnsOf(db, Head(todo).stem) = {})
         => /\ ret'.status # "raised"
            /\ Cardinality(TurnsOf(db', Head(todo).stem)) =
                 Cardinality({i \in 1..Len(fs[Head(todo)]) :
                                 Conversational(fs[Head(todo)][i])})]_vars

EmbeddingsOk(d) ==
    /\ \A e1, e2 \in d.embeddings :
          (e1.message_id = e2.message_id /\ e1.model = e2.model) => e1 = e2
    /\ \A e \in d.embeddings : \E m \in d.messages :
          m.id = e.message_id /\ TextLen(m.content) >= MIN_CONTENT_LENGTH

\* C9: at most one Embedding row per (Turn, model), and every Embedding row
\* is that of a Turn of at least MIN_CONTENT_LENGTH characters.
C9_EmbeddingUnique == EmbeddingsOk(db) /\ EmbeddingsOk(disk)

\* C9 witness: a committed Embedding next to a committed Turn too short to
\* have one.
C9_Witness ==
    /\ disk.embeddings # {}
    /\ \E m \in disk.messages : TextLen(m.content) < MIN_CONTENT_LENGTH

Referential(d) ==
    /\ \A e \in d.embeddings : \E m \in d.messages : m.id = e.message_id
    /\ \A m \in d.messages : \E s \in d.sessions : s.id = m.session_id

\* C10: every committed Embedding has its Turn and every committed Turn its
\* Session, and an ingestion that writes a Session leaves no Turn or
\* Embedding of the Session it replaces.
C10_Cascade ==
    [][/\ Referential(disk')
       /\ (IndexStep /\ ret'.status = "indexed") =>
             /\ \A m \in TurnsOf(db', Head(todo).stem) : m.id > db.seq.messages
             /\ \A e \in db'.embeddings :
                   e.message_id \notin
                       {m.id : m \in TurnsOf(db, Head(todo).stem)}]_vars

\* the Turns of a session long enough to be embedded, by ascending id
EligibleIds(d, session_id) ==
    SortedIds({m.id : m \in {x \in TurnsOf(d, session_id) :
                                TextLen(x.content) >= MIN_CONTENT_LENGTH}})

HasEmbedding(d, message_id) ==
    \E e \in d.embeddings :
        e.message_id = message_id /\ e.model = EMBEDDING_MODEL

\* backfill_embeddings returns
BackfillReturns ==
    /\ bf.pc = "loop"
    /\ bf.i >= Len(bf.candidates)
    /\ bf' = Idle
    /\ db' = db

\* the eligible Turns ids, batched by twenty, that have an Embedding in d
\* are exactly those of the batches outside errors
StoredExceptBatches(d, ids, errors) ==
    \A k \in 1..Len(ids) :
        HasEmbedding(d, ids[k])
          <=> ((k - 1) \div EMBEDDING_BATCH_SIZE) \notin errors

\* C11: an ingestion with embeddings does not raise because a batch failed,
\* and of its eligible Turns, batched by twenty, exactly those of the batches
\* an error was printed for are without an Embedding; when
\* backfill_embeddings returns, exactly the candidates of the batches an
\* error was printed for are without a committed Embedding.
C11_BatchIsolation ==
    [][((IndexStep /\ generate_embeds) =>
            (/\ ret'.status # "raised"
             /\ ret'.status = "indexed" =>
                  StoredExceptBatches(db', EligibleIds(db', Head(todo).stem),
                                      embed_errors')))
       /\ (BackfillReturns =>
             StoredExceptBatches(disk', bf.candidates, embed_errors))]_vars

\* C11 witness: the second batch failed and Embeddings of the first and of
\* the third batch are committed.
C11_Witness ==
    /\ embed_errors = {1}
    /\ bf = Idle
    /\ Cardinality({e \in disk.embeddings : e.model = EMBEDDING_MODEL})
          > EMBEDDING_BATCH_SIZE

\* the process dies while backfill_embeddings runs
CrashStep == bf.pc = "loop" /\ bf' = Idle /\ db' = disk /\ disk' = disk

\* C12: a crash inside backfill_embeddings loses the Embedding rows of at
\* most one batch: the rows stored and not yet committed are never more
\* than EMBEDDING_BATCH_SIZE.
C12_CrashBound ==
    [][CrashStep =>
         Cardinality(db.embeddings \ disk.embeddings)
            <= EMBEDDING_BATCH_SIZE]_vars

\* backfill_embeddings returns at once: it found no candidate
BackfillReturnsAtOnce ==
    /\ bf = Idle /\ bf' = Idle /\ todo = <<>> /\ todo' = <<>>
    /\ BackfillCandidates(db) = <<>>
    /\ db' = db /\ disk' = disk /\ ret' = NoCall

\* C13: when backfill_embeddings has returned and no batch failed, every
\* Turn of at least MIN_CONTENT_LENGTH characters has exactly one Embedding
\* under EMBEDDING_MODEL, whatever Embeddings under other models it had.
C13_BackfillComplete ==
    [][((BackfillReturns /\ embed_errors = {}) \/ BackfillReturnsAtOnce) =>
         \A m \in db'.messages :
             TextLen(m.content) >= MIN_CONTENT_LENGTH =>
                Cardinality({e \in db'.embeddings :
                                /\ e.message_id = m.id
                                /\ e.model = EMBEDDING_MODEL}) = 1]_vars

Total(res) == res.indexed + res.skipped + res.errors

\* C14: in index_directory a file whose ingestion raises adds one to
\* 'errors' and to nothing else, the files after it are still visited, and
\* the three counters and the files still to visit add up to the number of
\* files found, so that indexed + skipped + errors = k at the end.
C14_FailureContained ==
    [][IndexStep =>
         /\ ret'.status = "raised" =>
               /\ results'.errors = results.errors + 1
               /\ results'.indexed = results.indexed
               /\ results'.skipped = results.skipped
         /\ Total(results') + Len(todo') = Cardinality(Glob(Head(todo).dir))
      ]_vars

\* C14 witness: a run is over in which one file raised and a file visited
\* after it was ingested.
C14_Witness ==
    /\ todo = <<>>
    /\ results.errors = 1
    /\ results.indexed = 1
    /\ ret.status = "indexed"

\* extract_session_metadata returns, and has returned before for this path
ReturnsAgain ==
    /\ resolver.pc = LastStep + 1
    /\ resolver'.pc = 0
    /\ resolver.returned # NoMetadata

\* C15 as claimed: a call for a path returns the triple that the call before
\* it returned for this path, whatever happened to the files next to it.
C15_Pure ==
    [][ReturnsAgain => resolver'.returned = resolver.returned]_vars

\* C15 amended: agent_id and channel_id are those the call before returned,
\* and so is the channel when telegram-sessions.json next to the file was
\* the same at both calls.
C15_PureButMarker ==
    [][ReturnsAgain =>
         /\ resolver'.returned.agent_id = resolver.returned.agent_id
         /\ resolver'.returned.channel_id = resolver.returned.channel_id
         /\ resolver.tg_sessions = resolver.returned_tg =>
               resolver'.returned = resolver.returned]_vars

\* C15 witness: a second call for a path under .claude/projects is about to
\* return channel 'telegram', as the first did under the same marker file.
C15_Witness ==
    /\ resolver.pc = LastStep + 1
    /\ resolver.returned # NoMetadata
    /\ resolver.tg_sessions = resolver.returned_tg
    /\ resolver.metadata.channel = S_telegram
    /\ resolver.metadata.agent_id = S_CC

\* a step after the first and before the final check is taken while the
\* agent identity is resolved
LaterStepOnResolved ==
    /\ resolver.pc \in 2..(LastStep - 1)
    /\ resolver'.pc = resolver.pc + 1
    /\ resolver.metadata.agent_id # S_unknown

FilenameStep == 7

\* C16 as claimed: once a step has resolved the agent identity, no later
\* step (path convention, file name prefix, UUID stem, fallback) changes it.
C16_FirstMatchWins ==
    [][LaterStepOnResolved =>
         resolver'.metadata.agent_id = resolver.metadata.agent_id]_vars

\* C16 amended: once a step has resolved the agent identity no later step
\* changes it, but for the file name step, which replaces 'Kit' or 'Claude'
\* by the canonical name of the known agent an agent-{id}-... name gives.
C16_FirstMatchWinsButGeneric ==
    [][LaterStepOnResolved =>
         \/ resolver'.metadata.agent_id = resolver.metadata.agent_id
         \/ /\ resolver.pc = FilenameStep
            /\ resolver.metadata.agent_id \in {S_Kit, S_Claude}
            /\ Len(PartsOf(resolver.filepath)) >= 2
            /\ PartsOf(resolver.filepath)[1] = S_agent
            /\ Lower(PartsOf(resolver.filepath)[2]) \in KNOWN_AGENTS
            /\ resolver'.metadata.agent_id =
                  AGENT_NAME_MAP[Lower(PartsOf(resolver.filepath)[2])]]_vars

\* C16 witness: the file name step has been taken on a path whose directory
\* resolved the agent and whose file name names another known agent, and
\* the identity of the directory stands.
C16_Witness ==
    /\ resolver.pc = FilenameStep + 1
    /\ Occurrences(resolver.filepath, <<"/">> \o S_agents_archive \o <<"/">>)
          # {}
    /\ PartsOf(resolver.filepath)[1] = S_agent
    /\ PartsOf(resolver.filepath)[2] = S_main
    /\ resolver.metadata.agent_id = S_cyrus

\* C17: the agent identity extract_session_metadata returns never looks
\* like a hexadecimal session id fragment (six or more characters that parse
\* in base 16 and are no known agent name).
C17_HexSafety ==
    [][(resolver.pc = LastStep + 1 /\ resolver'.pc = 0) =>
         ~_is_hex_id(resolver'.returned.agent_id)]_vars

\* C17 witness: a call has returned 'unknown' for a path whose directory
\* names the agent by a hexadecimal fragment.
C17_Witness ==
    /\ resolver.pc = 0
    /\ resolver.returned.agent_id = S_unknown
    /\ Occurrences(resolver.filepath,
                   <<"/">> \o S_agents \o <<"/">> \o S_deadbeef \o <<"/">>)
          # {}

\* a is not later than b
NotLater(a, b) == a.day < b.day \/ (a.day = b.day /\ a.hour <= b.hour)

\* the text part occurs in the text whole, letter case aside
ContainsTerm(whole, part) == Positions(FoldText(part), FoldText(whole)) # {}

\* the result r satisfies the agent, channel and time-bound filters of rq
SatisfiesFilters(r, rq) ==
    /\ rq.agent # <<>> => r.agent_id = rq.agent
    /\ rq.channel # <<>> => r.channel = rq.channel
    /\ rq.days # 0 =>
          ~r.timestamp.none /\ NotLater(Cutoff(rq.now, rq.days), r.timestamp)
    /\ ~rq.date_from.none =>
          ~r.timestamp.none /\ NotLater(rq.date_from, r.timestamp)
    /\ ~rq.date_to.none =>
          ~r.timestamp.none /\ NotLater(r.timestamp, rq.date_to)

\* C18: keyword_search returns at most `limit` rows, every returned Turn
\* contains every query term whatever the letter case, every returned row
\* satisfies the agent, channel and time-bound filters given, and the rows
\* come in ascending order of score; a query without terms once the quotes
\* are stripped returns the empty list
C18_ConjunctiveSearch ==
    (request.fn = "keyword_search" /\ found.returned) =>
        IF QueryWords(request.query) = <<>> THEN found.list = <<>>
        ELSE /\ Len(found.list) <= request.limit
             /\ \A i \in 1..Len(found.list) :
                   /\ \A w \in 1..Len(QueryWords(request.query)) :
                         ContainsTerm(found.list[i].content,
                                      QueryWords(request.query)[w])
                   /\ SatisfiesFilters(found.list[i], request)
             /\ \A i, j \in 1..Len(found.list) :
                   i < j => found.list[i].score <= found.list[j].score
\* C19: every result of the semantic path of semantic_search has a
\* similarity of at least the floor (0.45), and the list is sorted by
\* descending similarity
C19_SimilarityBound ==
    (request.fn = "semantic_search" /\ request.client /\ found.returned) =>
        /\ \A i \in 1..Len(found.list) :
              found.list[i].score >= MIN_SIMILARITY
        /\ \A i, j \in 1..Len(found.list) :
              i < j => found.list[i].score >= found.list[j].score

\* the semantic path returned two results of different similarity while
\* the cache held a row under the floor
C19_Witness ==
    /\ request.fn = "semantic_search" /\ request.client /\ found.returned
    /\ Len(found.list) = 2
    /\ found.list[1].score > found.list[2].score
    /\ \E r \in Scored(_embedding_cache.metadata, EmbeddingOf(request.query)) :
          r.score < MIN_SIMILARITY
\* C20: no two results of a list returned by search_conversations, in
\* lexical mode and in semantic mode, have the same fingerprint (role,
\* first 500 characters of content): deduplicate_results would leave the
\* list as it is
C20_Deduplicated ==
    (request.fn = "search_conversations" /\ found.returned) =>
        deduplicate_results(found.list, {}, <<>>) = found.list
\* C21: whenever the embedding function is unavailable at query time (no
\* client, or the call for the query vector fails or times out),
\* semantic_search returns what the lexical path returns for the same
\* query and filters, and raises nothing
C21_SemanticDegrades ==
    [][(/\ request.fn = "semantic_search"
        /\ ~request.client \/ request.fails
        /\ todo' = todo)
       => (/\ found'.returned
           /\ found'.list \in keyword_search(disk, request))]_vars
\* a semantic_search call that got its query vector returns
SemanticStep ==
    /\ request.fn = "semantic_search"
    /\ request.client /\ ~request.fails
    /\ todo' = todo /\ fs' = fs

\* the Turn a result shows is a Turn of the store
TurnInStore(d, r) ==
    \E m \in d.messages :
        /\ m.session_id = r.session_id
        /\ m.role = r.role
        /\ m.content = r.content

\* C22: after any interleaving of ingestions, re-ingestions and semantic
\* queries in one process the rows a semantic query scores are exactly the
\* Embedding rows now in the store that satisfy the query's filters, and
\* no returned result shows a Turn that a session replacement deleted
C22_CacheMatchesStore ==
    [][SemanticStep
       => (/\ _embedding_cache'.metadata = EmbeddingRows(disk, request)
           /\ \A i \in 1..Len(found'.list) :
                  TurnInStore(disk, found'.list[i]))]_vars
\* the client's call is a semantic_search that gets its query vector
SemanticCall ==
    /\ request.fn = "semantic_search"
    /\ request.client /\ ~request.fails

\* the cache a semantic_search call made now leaves
CacheLeft == semantic_search(_embedding_cache, disk, request).cache

\* C23: on a semantic query the cache is left unchanged when it holds rows
\* and its filter key and row count are the current ones; in every other
\* case it is rebuilt from storage under the current filters; after the
\* call its key and count are the current ones
C23_ReuseRule ==
    SemanticCall
    => (/\ CacheLeft = IF /\ _embedding_cache.metadata # {}
                          /\ Current(_embedding_cache, disk, request)
                       THEN _embedding_cache
                       ELSE FreshBuild(disk, request)
        /\ Current(CacheLeft, disk, request))

\* C23 amended: the cache is left unchanged when it was built before, with
\* or without rows, and its filter key and row count are the current ones;
\* in every other case it is rebuilt from storage under the current
\* filters; after the call its key and count are the current ones
C23_ReuseRuleBuilt ==
    SemanticCall
    => (/\ CacheLeft = IF /\ _embedding_cache.built
                          /\ Current(_embedding_cache, disk, request)
                       THEN _embedding_cache
                       ELSE FreshBuild(disk, request)
        /\ Current(CacheLeft, disk, request))

\* a query left a cache without rows whose key and count are still the
\* current ones, while rows of the store now pass the filters
C23_Witness ==
    /\ found.returned
    /\ _embedding_cache.built
    /\ _embedding_cache.metadata = {}
    /\ _embedding_cache.count > 0
    /\ Current(_embedding_cache, disk, request)
    /\ EmbeddingRows(disk, request) # {}
\* thread t is between the acquisition and the release of the lock
InLock(t) ==
    calls[t].pc \in {"check", "build", "guard", "matrix", "norms", "metadata"}

\* the validity check and the rebuild of two calls never overlap
LockExcludes ==
    \A t, u \in Threads : t # u => ~(InLock(t) /\ InLock(u))

\* the matrix, the norms and the metadata a call scores come from one
\* build, made under the call's own filters
OneBuild(t) ==
    (\/ calls[t].pc = "score"
     \/ calls[t].pc = "done" /\ calls[t].snapshot # NoSnapshot) =>
        /\ calls[t].snapshot.matrix = calls[t].snapshot.norms
        /\ calls[t].snapshot.norms = calls[t].snapshot.metadata
        /\ calls[t].snapshot.matrix = FreshBuild(disk, calls[t].rq)

\* every result of a finished call satisfies the call's filters
OwnFilters(t) ==
    calls[t].pc = "done" =>
        \A i \in 1..Len(calls[t].list) :
            SatisfiesFilters(calls[t].list[i], calls[t].rq)

\* C24: under any interleaving of concurrent semantic_search calls, with
\* equal or different filters, the validity check and the rebuild of the
\* cache never overlap between calls, each call scores a matrix, norms
\* and metadata that come from one single build made for its own filters,
\* and every result of a call satisfies that call's filters
C24_CacheExclusion ==
    /\ LockExcludes
    /\ \A t \in Threads : OneBuild(t) /\ OwnFilters(t)
\* the sets of candidates semantic_search may walk for the request, on the
\* cache its call left
Considered ==
    TopSets(Scored(_embedding_cache.metadata, EmbeddingOf(request.query)),
            request.limit)

\* C25: for every limit >= 0 semantic_search returns at most `limit`
\* results and considers at most 3 * limit top-scored candidates
C25_ResultBound ==
    (SemanticCall /\ found.returned) =>
        /\ Len(found.list) <= request.limit
        /\ \A T \in Considered : Cardinality(T) <= 3 * request.limit
\* the file is named agent-{id}-{channel}-...
NamedAgentIdChannel(path_str) ==
    /\ Len(PartsOf(path_str)) >= 3
    /\ PartsOf(path_str)[1] = S_agent

\* the metadata after the path steps, index.py 105-160
PathPhase(path_str) ==
    ApplyStep(6,
      ApplyStep(5,
        ApplyStep(4,
          ApplyStep(3,
            ApplyStep(2,
              ApplyStep(1, InitialMetadata, path_str, NoMarker),
              path_str, NoMarker),
            path_str, NoMarker),
          path_str, NoMarker),
        path_str, NoMarker),
      path_str, NoMarker)

\* C26: for a file named agent-{id}-{channel}-... the channel returned is
\* the third dash-separated segment, also when a path step had set one;
\* when no path step resolved the agent, the agent is the canonical name
\* of {id} if {id} is a known agent and 'unknown' otherwise
C26_FilenameConvention ==
    [][(/\ resolver.pc = LastStep + 1
        /\ resolver'.pc = 0
        /\ NamedAgentIdChannel(resolver.filepath))
       => (/\ resolver'.returned.channel = PartsOf(resolver.filepath)[3]
           /\ PathPhase(resolver.filepath).agent_id = S_unknown
              => resolver'.returned.agent_id =
                    IF Lower(PartsOf(resolver.filepath)[2]) \in KNOWN_AGENTS
                    THEN AGENT_NAME_MAP[Lower(PartsOf(resolver.filepath)[2])]
                    ELSE S_unknown)]_vars

\* C26 witness: /home/agents-archive/cyrus/agent-cyrus-telegram-abc123.jsonl
\* has been resolved; the path step had set the channel 'direct' and the
\* call returned agent 'cyrus' and channel 'telegram'
C26_Witness ==
    /\ resolver.pc = 0
    /\ resolver.filepath =
          Join(<<<<>>, S_home, S_agents_archive, S_cyrus,
                 Join(<<S_agent, S_cyrus, S_telegram, S_abc123>>, "-")
                    \o S_dot_jsonl>>, "/")
    /\ PathPhase(resolver.filepath).channel = S_direct
    /\ resolver.returned.agent_id = S_cyrus
    /\ resolver.returned.channel = S_telegram
\* the next call of index_directory's loop parses its file, and the file
\* yields no turn
ParsedEmpty ==
    /\ todo # <<>>
    /\ \A l \in Existing(db, Head(todo)) :
          l.file_size # FileSize(fs[Head(todo)])
    /\ ~extract_messages(fs[Head(todo)]).raised
    /\ extract_messages(fs[Head(todo)]).messages = <<>>

\* the call on a file without turns is reported as skipped and creates no
\* Session, Turn, Embedding or ledger row
SkippedAndNothingCreated ==
    /\ ret'.status = "skipped"
    /\ db'.sessions \subseteq db.sessions
    /\ db'.messages \subseteq db.messages
    /\ db'.embeddings \subseteq db.embeddings
    /\ db'.index_log \subseteq db.index_log
    /\ Existing(db', Head(todo)) = {}

\* C27: a file that yields no turn creates no Session, Turn, Embedding or
\* ledger row and is reported as skipped, and no ledger entry of the
\* file's size is left, neither for this connection nor for the next
\* process, so that every later run parses the file again
C27_EmptyFile ==
    [][(ParsedEmpty /\ todo' = Tail(todo))
       => (/\ SkippedAndNothingCreated
           /\ \A l \in Existing(disk', Head(todo)) :
                  l.file_size # FileSize(fs[Head(todo)]))]_vars
\* C28: whenever index_session_file returns, with any status, the
\* connection holds no uncommitted change; when a file ingested before has
\* changed its size and yields no turn, the removal of its old rows is
\* committed before 'skipped' is returned
C28_NoPendingWrites ==
    [][(/\ todo # <<>>
        /\ todo' = Tail(todo)
        /\ ret'.status # "raised")
       => db' = disk']_vars
\* C29: in every committed state the message_count of every Session is
\* the number of Turn rows with its id and the message_count of the
\* ledger entry of its source file, and a path has a ledger entry if and
\* only if a Session with that source_file exists
C29_CountConsistency ==
    /\ \A s \in disk.sessions :
          /\ s.message_count = Cardinality(TurnsOf(disk, s.id))
          /\ \E l \in Existing(disk, s.source_file) :
                 l.message_count = s.message_count
          /\ \A l \in Existing(disk, s.source_file) :
                 l.message_count = s.message_count
    /\ \A l \in disk.index_log :
          \E s \in disk.sessions : s.source_file = l.source_file
\* the texts of all Turns of the store, in the order of their ids
AllTexts == Texts(db.messages, SortedIds({m.id : m \in db.messages}))

\* generate_embeddings returns a list as long as its input, with None at
\* the positions of the failed batches and nowhere else
SameLengthNoneWhereFailed(texts, failed) ==
    /\ Len(generate_embeddings(texts, failed)) = Len(texts)
    /\ \A i \in 1..Len(texts) :
          generate_embeddings(texts, failed)[i] = NoVector
          <=> ((i - 1) \div EMBEDDING_BATCH_SIZE) \in failed

\* C30: provided each successful batch call returns one vector per text,
\* generate_embeddings returns a list of the length of its input with None
\* exactly at the positions of the failed batches, and after any pattern
\* of batch failures every stored Embedding is attached to the Turn whose
\* truncated content was sent for it
C30_EmbeddingAlignment ==
    /\ \A failed \in SUBSET {0, 1, 2} :
          SameLengthNoneWhereFailed(AllTexts, failed)
    /\ \A e \in db.embeddings :
          \E m \in db.messages :
              /\ m.id = e.message_id
              /\ e.embedding = EmbeddingOf(Prefix(m.content, 2000))

\* C30 witness: the first batch of an ingestion failed and a later one came
\* back: the first Turn has no Embedding, and the stored Embeddings carry
\* different vectors
C30_Witness ==
    /\ ret.status = "indexed"
    /\ 0 \in embed_errors
    /\ \E m \in db.messages :
          /\ TextLen(m.content) >= MIN_CONTENT_LENGTH
          /\ ~\E e \in db.embeddings : e.message_id = m.id
    /\ \E e, f \in db.embeddings : e.embedding # f.embedding
====
